---------------------------- MODULE Spec2Model ----------------------------
(***************************************************************************)
(* A model of vite-plugin-functions-mixins: the text-level expander of     *)
(* CSS @function / @mixin declarations.                                     *)
(*                                                                         *)
(* Texts are TLA+ strings handled character by character.  Offsets are the *)
(* 0-based offsets of the TypeScript source; a span is <<start, end>>,     *)
(* half open.  An optional JavaScript value (string | undefined) is a      *)
(* sequence of length 0 (undefined) or 1.  A function that can throw       *)
(* returns a value that says so: findMatchingBrace returns -1, the others  *)
(* a record with an err field.  A local constant of the source is bound    *)
(* with With(value, LAMBDA name : ...).                                     *)
(*                                                                         *)
(* Three versions of the plugin are in the source tree:                    *)
(*   "cur"  src/plugin/src/index.ts                                        *)
(*   "A"    src/unnamed/part_001 lines 1..485   (processCode with strip)   *)
(*   "B"    src/unnamed/part_001 lines 486..1027 (expand, then strip)      *)
(***************************************************************************)
EXTENDS Integers, Sequences, FiniteSets, TLC

\* ------------------------------------------------------------------------
\* Characters and JavaScript string primitives
\* ------------------------------------------------------------------------

\* const x = v; followed by the code F that reads x
With(v, F(_)) == F(v)

None == <<>>
Some(v) == <<v>>
IsSome(o) == Len(o) = 1
Get(o) == o[1]

Min(a, b) == IF a <= b THEN a ELSE b
Max(a, b) == IF a >= b THEN a ELSE b

\* code[i] for 0 <= i < code.length, "" beyond the end (undefined in JS)
At(s, i) == IF i >= 0 /\ i < Len(s) THEN SubSeq(s, i + 1, i + 1) ELSE ""

\* s.slice(a, b) for non-negative a, b
Slice(s, a, b) == IF a >= Min(b, Len(s)) THEN "" ELSE SubSeq(s, a + 1, Min(b, Len(s)))

\* s.slice(a)
SliceFrom(s, a) == IF a >= Len(s) THEN "" ELSE SubSeq(s, a + 1, Len(s))

StartsWithAt(s, p, lit) == Slice(s, p, p + Len(lit)) = lit

WordChars ==
    {"a","b","c","d","e","f","g","h","i","j","k","l","m","n","o","p","q","r",
     "s","t","u","v","w","x","y","z","A","B","C","D","E","F","G","H","I","J",
     "K","L","M","N","O","P","Q","R","S","T","U","V","W","X","Y","Z","0","1",
     "2","3","4","5","6","7","8","9","_"}

\* the class [\w-]
IsIdentChar(c) == c \in WordChars \/ c = "-"

\* the class \s
IsSpace(c) == c \in {" ", "\n", "\t", "\r"}

\* a ceiling that is one pass short
CeilingOffByOne == 10 - 1

MAX_RECURSION_DEPTH == 10

OPEN_BRACKETS == {"(", "{", "["}
CLOSE_BRACKETS == {")", "}", "]"}

\* the least i in lo..stop-1 with P(i), stop when there is none
FirstOrStop(lo, stop, P(_)) ==
    CHOOSE i \in lo .. stop : (i = stop \/ P(i)) /\ \A j \in lo .. (i - 1) : ~P(j)

\* the least i in lo..hi with P(i), -1 when there is none
FirstFrom(lo, hi, P(_)) ==
    With(FirstOrStop(lo, Max(lo, hi + 1), P),
         LAMBDA c : IF c = Max(lo, hi + 1) THEN -1 ELSE c)

\* the offsets of lo..hi with P: where a pattern matches.  A global scan
\* (matchAll, replace with /g, exec in a loop) visits them in increasing order
Hits(lo, hi, P(_)) == {i \in lo .. hi : P(i)}

\* the least element of a set of offsets, -1 when it is empty
LeastOf(S) == IF S = {} THEN -1 ELSE CHOOSE i \in S : \A j \in S : i <= j

\* the least offset of hits that is >= from, -1 when there is none
LeastFrom(hits, from) == LeastOf({i \in hits : i >= from})

\* the offset after the run \s* that starts at p (At is "" at the end of s)
SkipSpace(s, p) == FirstOrStop(p, Max(p, Len(s)), LAMBDA i : ~IsSpace(At(s, i)))

\* the offset after the run [\w-]* that starts at p
SkipIdent(s, p) == FirstOrStop(p, Max(p, Len(s)), LAMBDA i : ~IsIdentChar(At(s, i)))

\* the end of a match of --[\w-]+ at p, or -1
IdentEnd(s, p) ==
    IF StartsWithAt(s, p, "--") /\ IsIdentChar(At(s, p + 2))
    THEN SkipIdent(s, p + 2) ELSE -1

\* s.indexOf(c, from) for a one-character c, -1 when absent
IndexOfChar(s, c, from) == FirstFrom(from, Len(s) - 1, LAMBDA i : At(s, i) = c)

\* String.prototype.trim: lead and trail count the whitespace at the two ends
TrimEnds(s, lead, trail) == IF lead = Len(s) THEN "" ELSE Slice(s, lead, Len(s) - trail)

Trim(s) ==
    TrimEnds(s, SkipSpace(s, 0),
             FirstOrStop(0, Len(s), LAMBDA k : ~IsSpace(At(s, Len(s) - 1 - k))))

\* the number of newline characters of s
CountNewlines(s) == Cardinality({i \in 0 .. (Len(s) - 1) : At(s, i) = "\n"})

RECURSIVE Newlines(_)
Newlines(k) == IF k <= 0 THEN "" ELSE "\n" \o Newlines(k - 1)

\* str.replace(/[^\n]/g, ""): what is left is the newlines of str
KeepNewlines(s) == Newlines(CountNewlines(s))

\* ------------------------------------------------------------------------
\* Parsing utilities
\* ------------------------------------------------------------------------

\* the loop of findMatchingBrace, stepping from bracket to bracket: the
\* characters between two brackets leave depth as it is
RECURSIVE ScanBrace(_, _, _)
ScanBrace(code, from, depth) ==
    With(FirstFrom(from, Len(code) - 1,
                   LAMBDA k : At(code, k) \in OPEN_BRACKETS \/ At(code, k) \in CLOSE_BRACKETS),
         LAMBDA i :
             IF i = -1 THEN -1
             ELSE With(IF At(code, i) \in OPEN_BRACKETS THEN depth + 1 ELSE depth - 1,
                       LAMBDA d : IF d = 0 THEN i ELSE ScanBrace(code, i + 1, d)))

\* a scan that counts from depth 0: the bracket at start - 1 is not counted
BraceFromDepthZero(code, start) == ScanBrace(code, start, 0)

\* the offset of the bracket closing the one before start; -1 models the throw
findMatchingBrace(code, start) == ScanBrace(code, start, 1)

\* parts.push(current.trim()) when current.trim() is not empty
PushTrimmed(parts, current) == IF current # "" THEN Append(parts, current) ELSE parts

\* a depth that no bracket changes
DepthIgnored(c, depth) == depth

\* the depth after the character c
DepthAfter(c, depth) ==
    IF c \in OPEN_BRACKETS THEN depth + 1
    ELSE IF c \in CLOSE_BRACKETS THEN depth - 1 ELSE depth

\* the loop of splitByComma, stepping from one bracket or comma to the next:
\* the characters between are appended to current; partStart is where current began
RECURSIVE SplitScan(_, _, _, _, _)
SplitScan(str, from, partStart, depth, parts) ==
    With(FirstFrom(from, Len(str) - 1,
                   LAMBDA k : \/ At(str, k) \in OPEN_BRACKETS
                              \/ At(str, k) \in CLOSE_BRACKETS
                              \/ At(str, k) = ","),
         LAMBDA i :
             IF i = -1 THEN PushTrimmed(parts, Trim(SliceFrom(str, partStart)))
             ELSE With(DepthAfter(At(str, i), depth),
                       LAMBDA d :
                           IF At(str, i) = "," /\ d = 0
                           THEN SplitScan(str, i + 1, i + 1, d,
                                          Append(parts, Trim(Slice(str, partStart, i))))
                           ELSE SplitScan(str, i + 1, partStart, d, parts)))

splitByComma(str) == SplitScan(str, 0, 0, 0, <<>>)

\* { name, defaultValue } of parseParams: the name is the --identifier the name
\* part starts with, or the whole name part
ParamOf(namePart, defaultValue) ==
    With(IdentEnd(namePart, 0),
         LAMBDA e :
             With(IF e > -1 THEN Slice(namePart, 0, e) ELSE namePart,
                  LAMBDA name :
                      IF name # ""
                      THEN <<[name |-> name, defaultValue |-> defaultValue]>>
                      ELSE <<>>))

\* one part of a parameter list: <<>> when the part is skipped, else <<param>>
ParseOneParam(p) ==
    With(IndexOfChar(p, ":", 0),
         LAMBDA colonIdx :
             IF colonIdx > -1
             THEN ParamOf(Trim(Slice(p, 0, colonIdx)), Some(Trim(SliceFrom(p, colonIdx + 1))))
             ELSE ParamOf(p, None))

RECURSIVE ParseParts(_, _, _, _)
ParseParts(parts, k, params, hasContents) ==
    IF k > Len(parts) THEN [params |-> params, hasContents |-> hasContents]
    ELSE IF Trim(parts[k]) = "@contents"
         THEN ParseParts(parts, k + 1, params, TRUE)
         ELSE ParseParts(parts, k + 1, params \o ParseOneParam(parts[k]), hasContents)

parseParams(paramStr) == ParseParts(splitByComma(paramStr), 1, <<>>, FALSE)

\* the capture ([^;]+) that starts at offset q, up to the next ; or the end
ResultCapture(body, q, semi) ==
    With(IF semi = -1 THEN Len(body) ELSE semi,
         LAMBDA stop : IF stop <= q THEN None ELSE Some(Slice(body, q, stop)))

\* /result\s*:\s*([^;]+)(?:;|$)/ tried at offset p: the captured text, or None
ResultMatchAt(body, p) ==
    IF ~StartsWithAt(body, p, "result") THEN None
    ELSE With(SkipSpace(body, p + 6),
              LAMBDA q :
                  IF At(body, q) # ":" THEN None
                  ELSE ResultCapture(body, q + 1, IndexOfChar(body, ";", q + 1)))

\* a body without result: read as an empty result instead of a throw
ResultOrEmpty(body) == [err |-> FALSE, text |-> ""]

\* [err |-> TRUE] models the throw of Missing "result:"
extractResult(body) ==
    With(FirstFrom(0, Len(body) - 1,
                   LAMBDA i : At(body, i) = "r" /\ IsSome(ResultMatchAt(body, i))),
         LAMBDA p :
             IF p = -1 THEN [err |-> TRUE, text |-> ""]
             ELSE [err |-> FALSE, text |-> Trim(Get(ResultMatchAt(body, p)))])

\* ------------------------------------------------------------------------
\* Parameter substitution
\* ------------------------------------------------------------------------

\* a substitution that forgets the arguments of the call
DefaultOnly(params, args, i) == params[i].defaultValue

\* args[i] ?? params[i].defaultValue
ArgOrDefault(params, args, i) ==
    IF i <= Len(args) THEN Some(args[i]) ELSE params[i].defaultValue

\* new Map(params.map((param, i) => [param.name, args[i] ?? param.defaultValue]))
\* followed by .get(name): the last parameter of that name decides
ArgMapGet(params, args, name) ==
    With({i \in 1 .. Len(params) : params[i].name = name},
         LAMBDA idx :
             IF idx = {} THEN None
             ELSE ArgOrDefault(params, args, CHOOSE k \in idx : \A j \in idx : j <= k))

NoRef == [ok |-> FALSE, name |-> "", fallback |-> None, end |-> 0]

\* the rest of the pattern after the name s[q1..q2): \s* then ) or , fallback )
RefTail(s, q1, q2, q3, r) ==
    IF At(s, q3) = ")"
    THEN [ok |-> TRUE, name |-> Slice(s, q1, q2), fallback |-> None, end |-> q3 + 1]
    ELSE IF At(s, q3) = "," /\ r # -1 /\ r # q3 + 1
    THEN [ok |-> TRUE, name |-> Slice(s, q1, q2), fallback |-> Some(Slice(s, q3 + 1, r)),
          end |-> r + 1]
    ELSE NoRef

\* /kw\(\s*(--[\w-]+)\s*(?:,\s*([^)]+))?\s*\)/ tried at offset p (kw is var or env)
RefMatchAt(s, p, kw) ==
    IF ~StartsWithAt(s, p, kw \o "(") THEN NoRef
    ELSE With(SkipSpace(s, p + Len(kw) + 1),
              LAMBDA q1 :
                  With(IdentEnd(s, q1),
                       LAMBDA q2 :
                           IF q2 = -1 THEN NoRef
                           ELSE With(SkipSpace(s, q2),
                                     LAMBDA q3 :
                                         RefTail(s, q1, q2, q3,
                                                 IndexOfChar(s, ")", q3 + 1)))))

\* what the callback returns for the match m at offset p
RefValue(s, p, m, v, withFallback) ==
    IF IsSome(v) THEN Get(v)
    ELSE IF withFallback /\ IsSome(m.fallback) THEN Trim(Get(m.fallback))
    ELSE Slice(s, p, m.end)

\* template.replace(/kw\(...\)/g, callback): hits are the offsets where the
\* pattern matches, withFallback says whether the callback reads the fallback
\* group (it does not in version A's substituteVars)
RECURSIVE ReplaceRefs(_, _, _, _, _, _, _, _)
ReplaceRefs(s, hits, from, acc, kw, params, args, withFallback) ==
    With(LeastFrom(hits, from),
         LAMBDA p :
             IF p = -1 THEN acc \o SliceFrom(s, from)
             ELSE With(RefMatchAt(s, p, kw),
                       LAMBDA m :
                           ReplaceRefs(s, hits, m.end,
                                       acc \o Slice(s, from, p)
                                           \o RefValue(s, p, m,
                                                       ArgMapGet(params, args, m.name),
                                                       withFallback),
                                       kw, params, args, withFallback)))

RefHits(s, kw) ==
    Hits(0, Len(s) - 1, LAMBDA i : StartsWithAt(s, i, kw) /\ RefMatchAt(s, i, kw).ok)

substituteVars(template, params, args, version) ==
    ReplaceRefs(template, RefHits(template, "var"), 0, "", "var", params, args,
                version # "A")

\* a substitution that leaves every env() reference in place
EnvRefsKept(template, params, args) == template

substituteEnvVars(template, params, args) ==
    ReplaceRefs(template, RefHits(template, "env"), 0, "", "env", params, args, TRUE)

\* ------------------------------------------------------------------------
\* Extraction of declarations
\* ------------------------------------------------------------------------

EmptyRegistry == [n \in {} |-> 0]

\* a registry in which the first declaration of a name stays
RegistrySetIfAbsent(registry, name, def) ==
    [n \in (DOMAIN registry) \cup {name} |-> IF n \in DOMAIN registry THEN registry[n] ELSE def]

RegistrySet(registry, name, def) ==
    [n \in (DOMAIN registry) \cup {name} |-> IF n = name THEN def ELSE registry[n]]

NoHeader == [ok |-> FALSE, name |-> "", paramStr |-> "", end |-> 0]

\* returns\s*[^{]+\{ with returns at offset q: the offset after the brace b, or -1
ReturnsBrace(q, b) == IF b = -1 \/ b = q + 7 THEN -1 ELSE b + 1

\* (?:\s*returns\s*[^{]+)?\s*\{ tried at offset p: the offset after the brace, or -1
ReturnsAndBraceAt(code, p) ==
    With(SkipSpace(code, p),
         LAMBDA q :
             IF At(code, q) = "{" THEN q + 1
             ELSE IF StartsWithAt(code, q, "returns")
             THEN ReturnsBrace(q, IndexOfChar(code, "{", q + 7))
             ELSE -1)

\* the header whose name is code[n0..n1), whose parameter list is code[o+1..c)
\* and which ends at offset e (-1: the rest of the pattern does not match)
HeaderIf(code, n0, n1, o, c, e) ==
    IF e = -1 THEN NoHeader
    ELSE [ok |-> TRUE, name |-> Slice(code, n0, n1), paramStr |-> Slice(code, o + 1, c),
          end |-> e]

\* /@function\s+(--[\w-]+)\s*\(([^)]*)\)(?:\s*returns\s*[^{]+)?\s*\{/ from the
\* name on: n0 is the offset of the name
FunctionHeaderFrom(code, n0) ==
    With(IdentEnd(code, n0),
         LAMBDA n1 :
             IF n1 = -1 THEN NoHeader
             ELSE With(SkipSpace(code, n1),
                       LAMBDA o :
                           With(IndexOfChar(code, ")", o + 1),
                                LAMBDA c :
                                    IF At(code, o) # "(" \/ c = -1 THEN NoHeader
                                    ELSE HeaderIf(code, n0, n1, o, c,
                                                  ReturnsAndBraceAt(code, c + 1)))))

FunctionHeaderAt(code, p) ==
    IF ~(StartsWithAt(code, p, "@function") /\ IsSpace(At(code, p + 9))) THEN NoHeader
    ELSE FunctionHeaderFrom(code, SkipSpace(code, p + 9))

\* \s*\{ at offset b
BraceIf(code, n0, n1, o, c, b) ==
    HeaderIf(code, n0, n1, o, c, IF At(code, b) = "{" THEN b + 1 ELSE -1)

\* version "cur": /@mixin\s+(--[\w-]+)\s*\(([^)]*)\)\s*\{/
\* versions "A", "B": /@mixin\s+(--[\w-]+)\s*(\([^)]*\))?\s*\{/
\* from the name on: n0 is the offset of the name
MixinHeaderFrom(code, n0, version) ==
    With(IdentEnd(code, n0),
         LAMBDA n1 :
             IF n1 = -1 THEN NoHeader
             ELSE With(SkipSpace(code, n1),
                       LAMBDA o :
                           With(IndexOfChar(code, ")", o + 1),
                                LAMBDA c :
                                    IF At(code, o) = "(" /\ c # -1
                                    THEN BraceIf(code, n0, n1, o, c, SkipSpace(code, c + 1))
                                    ELSE IF version # "cur" /\ At(code, o) = "{"
                                    THEN [ok |-> TRUE, name |-> Slice(code, n0, n1),
                                          paramStr |-> "", end |-> o + 1]
                                    ELSE NoHeader)))

MixinHeaderAt(code, p, version) ==
    IF ~(StartsWithAt(code, p, "@mixin") /\ IsSpace(At(code, p + 6))) THEN NoHeader
    ELSE MixinHeaderFrom(code, SkipSpace(code, p + 6), version)

HeaderAt(code, i, kind, version) ==
    IF kind = "function" THEN FunctionHeaderAt(code, i) ELSE MixinHeaderAt(code, i, version)

\* the offsets where the header pattern matches
HeaderHits(code, kind, version) ==
    Hits(0, Len(code) - 1,
         LAMBDA k : At(code, k) = "@" /\ HeaderAt(code, k, kind, version).ok)

\* the registry entry of a declaration: a FunctionDef or a MixinDef
DefOf(kind, name, parsed, body) ==
    IF kind = "function"
    THEN [name |-> name, params |-> parsed.params, body |-> body]
    ELSE [name |-> name, params |-> parsed.params, body |-> body,
          hasContents |-> parsed.hasContents]

\* the loop of extractFunctions / extractMixins over code.matchAll(regex): from is
\* where the search for the next match starts (the end of the last header).  An
\* unmatched body brace throws out of the loop: the entries set so far stay.
RECURSIVE ExtractLoop(_, _, _, _, _, _, _)
ExtractLoop(code, hits, from, registry, removals, kind, version) ==
    With(LeastFrom(hits, from),
         LAMBDA at :
             IF at = -1 THEN [err |-> FALSE, registry |-> registry, removals |-> removals]
             ELSE With(HeaderAt(code, at, kind, version),
                       LAMBDA m :
                           With(findMatchingBrace(code, m.end),
                                LAMBDA bodyEnd :
                                    IF bodyEnd = -1
                                    THEN [err |-> TRUE, registry |-> registry,
                                          removals |-> removals]
                                    ELSE ExtractLoop(code, hits, m.end,
                                             RegistrySet(registry, m.name,
                                                         DefOf(kind, m.name,
                                                               parseParams(m.paramStr),
                                                               Slice(code, m.end, bodyEnd))),
                                             Append(removals, <<at, bodyEnd + 1>>),
                                             kind, version))))

extractFunctions(code, registry) ==
    ExtractLoop(code, HeaderHits(code, "function", "cur"), 0, registry, <<>>,
                "function", "cur")

extractMixins(code, registry, version) ==
    ExtractLoop(code, HeaderHits(code, "mixin", version), 0, registry, <<>>,
                "mixin", version)

\* ------------------------------------------------------------------------
\* Function call resolution
\* ------------------------------------------------------------------------

\* /(--[\w-]+)\(/ matches at offset i
CallAt(code, i) ==
    /\ At(code, i) = "-"
    /\ IdentEnd(code, i) # -1
    /\ At(code, IdentEnd(code, i)) = "("

CallHits(code) == Hits(0, Len(code) - 1, LAMBDA k : CallAt(code, k))

\* the replacement of the call of def with the argument text between argsStart
\* and argsEnd: [err, text]; a missing result: throws, and so does an unmatched (
Substituted(code, def, argsStart, argsEnd, res, version) ==
    IF argsEnd = -1 \/ res.err THEN [err |-> TRUE, text |-> ""]
    ELSE [err |-> FALSE,
          text |-> substituteVars(res.text, def.params,
                                  splitByComma(Slice(code, argsStart, argsEnd)), version)]

\* an unknown call whose name is not copied to the output
UnknownCallDropped(code, result, lastIdx, start, argsStart) ==
    result \o Slice(code, lastIdx, start)

\* result after a call of a name that is not registered: the text up to the
\* match, then fullMatch (the name and its parenthesis)
UnknownCall(code, result, lastIdx, start, argsStart) ==
    result \o Slice(code, lastIdx, start) \o Slice(code, start, argsStart)

\* the loop of resolveOnce: from is the regex's lastIndex, lastIdx the copy cursor
RECURSIVE ResolveOnceLoop(_, _, _, _, _, _, _)
ResolveOnceLoop(code, hits, from, result, lastIdx, registry, version) ==
    With(LeastFrom(hits, from),
         LAMBDA start :
             IF start = -1 THEN [err |-> FALSE, text |-> result \o SliceFrom(code, lastIdx)]
             ELSE With(IdentEnd(code, start) + 1,
                       LAMBDA argsStart :
                           IF Slice(code, start, argsStart - 1) \notin DOMAIN registry
                           THEN ResolveOnceLoop(code, hits, argsStart,
                                                UnknownCall(code, result, lastIdx, start,
                                                            argsStart),
                                                argsStart, registry, version)
                           ELSE With(findMatchingBrace(code, argsStart),
                                     LAMBDA argsEnd :
                                         With(Substituted(
                                                  code,
                                                  registry[Slice(code, start, argsStart - 1)],
                                                  argsStart, argsEnd,
                                                  extractResult(
                                                      registry[Slice(code, start,
                                                                     argsStart - 1)].body),
                                                  version),
                                              LAMBDA sub :
                                                  IF sub.err THEN sub
                                                  ELSE ResolveOnceLoop(
                                                           code, hits, argsStart,
                                                           result \o Slice(code, lastIdx, start)
                                                                  \o sub.text,
                                                           argsEnd + 1, registry, version)))))

resolveOnce(code, registry, version) ==
    ResolveOnceLoop(code, CallHits(code), 0, "", 0, registry, version)

\* the loop of resolveFunctionCalls; passes is the sequence of the texts the
\* calls of resolveOnce returned, in order
RECURSIVE ResolveCallsLoop(_, _, _, _, _)
ResolveCallsLoop(result, i, passes, registry, version) ==
    IF i >= MAX_RECURSION_DEPTH THEN [err |-> FALSE, text |-> result, passes |-> passes]
    ELSE With(resolveOnce(result, registry, version),
              LAMBDA next :
                  IF next.err THEN [err |-> TRUE, text |-> "", passes |-> passes]
                  ELSE IF next.text = result
                  THEN [err |-> FALSE, text |-> result,
                        passes |-> Append(passes, next.text)]
                  ELSE ResolveCallsLoop(next.text, i + 1, Append(passes, next.text),
                                        registry, version))

resolveFunctionCalls(code, registry, version) ==
    ResolveCallsLoop(code, 0, <<>>, registry, version)

\* ------------------------------------------------------------------------
\* Mixin application resolution
\* ------------------------------------------------------------------------

NoApply == [ok |-> FALSE, name |-> "", argsStr |-> None, contentsBlock |-> None, end |-> 0]

\* \{([^}]*)\}\s*;? with the braces at offsets t and b; w is the offset after \s*
ApplyBlock(code, name, argsStr, t, b, w) ==
    [ok |-> TRUE, name |-> name, argsStr |-> argsStr,
     contentsBlock |-> Some(Slice(code, t + 1, b)),
     end |-> IF At(code, w) = ";" THEN w + 1 ELSE w]

\* (?:\{([^}]*)\}\s*;?|;) tried at offset t
ApplyTail(code, name, argsStr, t, b) ==
    IF At(code, t) = ";"
    THEN [ok |-> TRUE, name |-> name, argsStr |-> argsStr, contentsBlock |-> None,
          end |-> t + 1]
    ELSE IF At(code, t) = "{" /\ b # -1
    THEN ApplyBlock(code, name, argsStr, t, b, SkipSpace(code, b + 1))
    ELSE NoApply

\* (?:\s*\(([^)]*)\))?\s* tried after the name: o is the offset after \s*, c the
\* offset of the first ) after o
ApplyArgs(code, name, o, c) ==
    IF At(code, o) = "(" /\ c # -1
    THEN With(SkipSpace(code, c + 1),
              LAMBDA t : ApplyTail(code, name, Some(Slice(code, o + 1, c)), t,
                                   IndexOfChar(code, "}", t + 1)))
    ELSE ApplyTail(code, name, None, o, IndexOfChar(code, "}", o + 1))

\* /@apply\s+(--[\w-]+)(?:\s*\(([^)]*)\))?\s*(?:\{([^}]*)\}\s*;?|;)/ from the name
\* on: n0 is the offset of the name
ApplyFrom(code, n0) ==
    With(IdentEnd(code, n0),
         LAMBDA n1 :
             IF n1 = -1 THEN NoApply
             ELSE With(SkipSpace(code, n1),
                       LAMBDA o : ApplyArgs(code, Slice(code, n0, n1), o,
                                            IndexOfChar(code, ")", o + 1))))

ApplyAt(code, p) ==
    IF ~(StartsWithAt(code, p, "@apply") /\ IsSpace(At(code, p + 6))) THEN NoApply
    ELSE ApplyFrom(code, SkipSpace(code, p + 6))

ApplyHits(code) ==
    Hits(0, Len(code) - 1, LAMBDA k : At(code, k) = "@" /\ ApplyAt(code, k).ok)

\* the match of a placeholder whose \s* ends at q; block says whether {...}
\* follows, b is the offset of its }, w the offset after the \s* behind it
ContentsMatch(s, q, block, b, w) ==
    [ok |-> TRUE, inner |-> IF block THEN Slice(s, q + 1, b) ELSE "",
     end |-> IF At(s, w) = ";" THEN w + 1 ELSE w]

ContentsFrom(s, q, withBlock, b) ==
    IF withBlock # "none" /\ At(s, q) = "{" /\ b # -1
    THEN ContentsMatch(s, q, TRUE, b, SkipSpace(s, b + 1))
    ELSE IF withBlock = "req" THEN [ok |-> FALSE, inner |-> "", end |-> 0]
    ELSE ContentsMatch(s, q, FALSE, b, q)

\* a placeholder pattern tried at p; withBlock names the pattern:
\*   "opt"   /@contents\s*(?:\{[^}]*\})?\s*;?/
\*   "req"   /@contents\s*\{([^}]*)\}\s*;?/
\*   "none"  /@contents\s*;?/
ContentsAt(s, p, withBlock) ==
    IF ~StartsWithAt(s, p, "@contents") THEN [ok |-> FALSE, inner |-> "", end |-> 0]
    ELSE With(SkipSpace(s, p + 9),
              LAMBDA q : ContentsFrom(s, q, withBlock, IndexOfChar(s, "}", q + 1)))

\* s.replace(pattern /g, replacement): useInner replaces by the captured $1
RECURSIVE ReplaceContentsLoop(_, _, _, _, _, _, _)
ReplaceContentsLoop(s, hits, from, acc, withBlock, useInner, replacement) ==
    With(LeastFrom(hits, from),
         LAMBDA p :
             IF p = -1 THEN acc \o SliceFrom(s, from)
             ELSE With(ContentsAt(s, p, withBlock),
                       LAMBDA m :
                           ReplaceContentsLoop(
                               s, hits, m.end,
                               acc \o Slice(s, from, p)
                                   \o (IF useInner THEN m.inner ELSE replacement),
                               withBlock, useInner, replacement)))

ReplaceContents(s, withBlock, useInner, replacement) ==
    ReplaceContentsLoop(s, Hits(0, Len(s) - 1,
                                LAMBDA i : At(s, i) = "@" /\ ContentsAt(s, i, withBlock).ok),
                        0, "", withBlock, useInner, replacement)

\* a substitution step that leaves the placeholders in the body
ContentsKept(substituted, def, contentsBlock) == substituted

\* the "Handle @contents substitution" step of resolveMixinsOnce
SpliceContents(substituted, def, contentsBlock) ==
    IF def.hasContents /\ IsSome(contentsBlock)
    THEN ReplaceContents(substituted, "opt", FALSE, Trim(Get(contentsBlock)))
    ELSE IF def.hasContents
    THEN ReplaceContents(ReplaceContents(substituted, "req", TRUE, ""), "none", FALSE, "")
    ELSE substituted

\* an unknown apply site that is deleted without a trace
SiteDeleted(mixinName) == ""

UnknownMixin(mixinName) == "/* Unknown mixin: " \o mixinName \o " */"

\* argsStr ? splitByComma(argsStr) : []
ApplyArgList(argsStr) ==
    IF IsSome(argsStr) /\ Get(argsStr) # "" THEN splitByComma(Get(argsStr)) ELSE <<>>

\* the expansion of the apply site m of the mixin def
ExpandWith(m, def) ==
    SpliceContents(substituteEnvVars(def.body, def.params, ApplyArgList(m.argsStr)), def,
                   m.contentsBlock)

\* the expansion of one apply site
ExpandApply(m, registry) ==
    IF m.name \notin DOMAIN registry THEN UnknownMixin(m.name)
    ELSE ExpandWith(m, registry[m.name])

RECURSIVE ResolveMixinsLoop(_, _, _, _, _, _)
ResolveMixinsLoop(code, hits, from, result, lastIdx, registry) ==
    With(LeastFrom(hits, from),
         LAMBDA at :
             IF at = -1 THEN result \o SliceFrom(code, lastIdx)
             ELSE With(ApplyAt(code, at),
                       LAMBDA m :
                           ResolveMixinsLoop(code, hits, m.end,
                                             result \o Slice(code, lastIdx, at)
                                                    \o ExpandApply(m, registry),
                                             m.end, registry)))

resolveMixinsOnce(code, registry) ==
    ResolveMixinsLoop(code, ApplyHits(code), 0, "", 0, registry)

\* a resolution that makes one pass and returns what it gave
SinglePass(result, i, passes, registry) ==
    With(resolveMixinsOnce(result, registry),
         LAMBDA next : [text |-> next, passes |-> Append(passes, next)])

\* the loop of resolveMixinApplications; passes is the sequence of the texts the
\* calls of resolveMixinsOnce returned, in order
RECURSIVE ResolveAppliesLoop(_, _, _, _)
ResolveAppliesLoop(result, i, passes, registry) ==
    IF i >= MAX_RECURSION_DEPTH THEN [text |-> result, passes |-> passes]
    ELSE With(resolveMixinsOnce(result, registry),
              LAMBDA next :
                  IF next = result THEN [text |-> result, passes |-> Append(passes, next)]
                  ELSE ResolveAppliesLoop(next, i + 1, Append(passes, next), registry))

resolveMixinApplications(code, registry) == ResolveAppliesLoop(code, 0, <<>>, registry)

\* ------------------------------------------------------------------------
\* Declaration spans: blanking, merging, transforming around them
\* ------------------------------------------------------------------------

\* a blanking that drops the newlines of the span with the rest
SpanDropped(result, start, end) == Slice(result, 0, start) \o SliceFrom(result, end)

\* const blank = result.slice(start, end).replace(/[^\n]/g, "");
\* result = result.slice(0, start) + blank + result.slice(end);
BlankSpan(result, start, end) ==
    Slice(result, 0, start) \o KeepNewlines(Slice(result, start, end))
    \o SliceFrom(result, end)

\* for (const [start, end] of removals.toReversed()) { ... }
RECURSIVE StripLoop(_, _, _)
StripLoop(result, removals, k) ==
    IF k < 1 THEN result
    ELSE StripLoop(BlankSpan(result, removals[k][1], removals[k][2]), removals, k - 1)

stripDefinitions(code, removals) == StripLoop(code, removals, Len(removals))

\* [...ranges].sort((a, b) => a[0] - b[0]): a stable sort by start
RECURSIVE InsertByStart(_, _)
InsertByStart(sorted, r) ==
    IF sorted = <<>> THEN <<r>>
    ELSE IF sorted[Len(sorted)][1] <= r[1] THEN Append(sorted, r)
         ELSE Append(InsertByStart(SubSeq(sorted, 1, Len(sorted) - 1), r),
                     sorted[Len(sorted)])

RECURSIVE SortByStart(_, _, _)
SortByStart(ranges, k, sorted) ==
    IF k > Len(ranges) THEN sorted
    ELSE SortByStart(ranges, k + 1, InsertByStart(sorted, ranges[k]))

\* the loop of mergeRanges over sorted[i..]: [curStart, curEnd] is the open group
RECURSIVE MergeLoop(_, _, _, _, _)
MergeLoop(sorted, i, merged, curStart, curEnd) ==
    IF i > Len(sorted) THEN Append(merged, <<curStart, curEnd>>)
    ELSE IF sorted[i][1] <= curEnd
         THEN MergeLoop(sorted, i + 1, merged, curStart, Max(curEnd, sorted[i][2]))
         ELSE MergeLoop(sorted, i + 1, Append(merged, <<curStart, curEnd>>),
                        sorted[i][1], sorted[i][2])

MergeSorted(sorted) == MergeLoop(sorted, 2, <<>>, sorted[1][1], sorted[1][2])

\* a merge that does not sort first
MergeUnsorted(ranges) == IF Len(ranges) = 0 THEN <<>> ELSE MergeSorted(ranges)

mergeRanges(ranges) ==
    IF Len(ranges) = 0 THEN <<>> ELSE MergeSorted(SortByStart(ranges, 1, <<>>))

\* [...ranges].sort(...): the sort works on a copy, the caller's array is as it was
CallerRanges(ranges) == ranges

\* a chunk in which the function calls are resolved before the mixin applications
ChunkCallsFirst(chunk, mixinRegistry, functionRegistry, version) ==
    With(resolveFunctionCalls(chunk, functionRegistry, version),
         LAMBDA c : IF c.err THEN c
                    ELSE [err |-> FALSE,
                          text |-> resolveMixinApplications(c.text, mixinRegistry).text,
                          passes |-> c.passes])

\* a chunk outside the declarations: mixin applications first, then function calls
ProcessChunk(chunk, mixinRegistry, functionRegistry, version) ==
    resolveFunctionCalls(resolveMixinApplications(chunk, mixinRegistry).text,
                         functionRegistry, version)

\* a declaration that is blanked whatever the strip flag says
AlwaysBlanked(definition, strip) == KeepNewlines(definition)

\* strip ? definition.replace(/[^\n]/g, "") : definition
KeptDefinition(definition, strip) ==
    IF strip THEN KeepNewlines(definition) ELSE definition

RECURSIVE TransformLoop(_, _, _, _, _, _, _, _)
TransformLoop(code, ranges, k, result, cursor, mixinRegistry, functionRegistry, opt) ==
    IF k > Len(ranges)
    THEN With(ProcessChunk(SliceFrom(code, cursor), mixinRegistry, functionRegistry,
                           opt.version),
              LAMBDA tail : IF tail.err THEN [err |-> TRUE, text |-> ""]
                            ELSE [err |-> FALSE, text |-> result \o tail.text])
    ELSE With(ProcessChunk(Slice(code, cursor, ranges[k][1]), mixinRegistry,
                           functionRegistry, opt.version),
              LAMBDA chunk :
                  IF chunk.err THEN [err |-> TRUE, text |-> ""]
                  ELSE TransformLoop(code, ranges, k + 1,
                                     result \o chunk.text
                                            \o KeptDefinition(Slice(code, ranges[k][1],
                                                                    ranges[k][2]),
                                                              opt.strip),
                                     ranges[k][2], mixinRegistry, functionRegistry, opt))

\* version A takes the strip flag; version B always copies the definitions
transformExcludingRanges(code, exclude, mixinRegistry, functionRegistry, strip, version) ==
    TransformLoop(code, mergeRanges(exclude), 1, "", 0, mixinRegistry, functionRegistry,
                  [strip |-> strip, version |-> version])

\* ------------------------------------------------------------------------
\* The plugin's entry points.  Each returns the registries as the call leaves
\* them (a throw leaves what was set before it) and the code it returns.
\* ------------------------------------------------------------------------

\* steps: the inputs and the passes of the two resolution stages of index.ts's
\* transform (the other entry points resolve chunk by chunk and leave NoSteps)
NoSteps ==
    [mixinIn |-> "", mixinPasses |-> <<>>, functionIn |-> "", functionPasses |-> <<>>]

\* a throw that empties the registries
ThrownCleared(functionRegistry, mixinRegistry) ==
    [err |-> TRUE, code |-> "", functionRegistry |-> EmptyRegistry,
     mixinRegistry |-> EmptyRegistry, steps |-> NoSteps]

Thrown(functionRegistry, mixinRegistry) ==
    [err |-> TRUE, code |-> "", functionRegistry |-> functionRegistry,
     mixinRegistry |-> mixinRegistry, steps |-> NoSteps]

Returned(code, functionRegistry, mixinRegistry, steps) ==
    [err |-> FALSE, code |-> code, functionRegistry |-> functionRegistry,
     mixinRegistry |-> mixinRegistry, steps |-> steps]

\* the registries after extractFunctions (f) and extractMixins (m) when one of
\* them threw: extractMixins is not reached when extractFunctions throws
ThrownIn(f, m, mixinRegistry) ==
    IF f.err THEN Thrown(f.registry, mixinRegistry) ELSE Thrown(f.registry, m.registry)

\* buildStart's body for one file: extractFunctions, then extractMixins
ScanResult(f, m, mixinRegistry) ==
    IF f.err \/ m.err THEN ThrownIn(f, m, mixinRegistry)
    ELSE Returned("", f.registry, m.registry, NoSteps)

ScanFile(content, functionRegistry, mixinRegistry, version) ==
    ScanResult(extractFunctions(content, functionRegistry),
               extractMixins(content, mixinRegistry, version), mixinRegistry)

\* the two resolution stages of index.ts's transform on the stripped text
ResolveCur(processed2, f, m, processed3) ==
    With(resolveFunctionCalls(processed3.text, f.registry, "cur"),
         LAMBDA processed4 :
             IF processed4.err THEN Thrown(f.registry, m.registry)
             ELSE Returned(processed4.text, f.registry, m.registry,
                           [mixinIn |-> processed2, mixinPasses |-> processed3.passes,
                            functionIn |-> processed3.text,
                            functionPasses |-> processed4.passes]))

\* index.ts's transform after its first strip: processed1 is the text without
\* the function declarations, m the result of extractMixins on it
StripAndResolveCur(processed1, f, m, mixinRegistry) ==
    IF m.err THEN ThrownIn(f, m, mixinRegistry)
    ELSE With(stripDefinitions(processed1, m.removals),
              LAMBDA processed2 :
                  ResolveCur(processed2, f, m,
                             resolveMixinApplications(processed2, m.registry)))

\* transform of src/plugin/src/index.ts
TransformCur(code, functionRegistry, mixinRegistry) ==
    With(extractFunctions(code, functionRegistry),
         LAMBDA f :
             IF f.err THEN Thrown(f.registry, mixinRegistry)
             ELSE With(stripDefinitions(code, f.removals),
                       LAMBDA processed1 :
                           StripAndResolveCur(processed1, f,
                                              extractMixins(processed1, mixinRegistry, "cur"),
                                              mixinRegistry)))

\* the end of processCode and of version B's transform: t is what
\* transformExcludingRanges returned
AroundResult(f, m, t, code) ==
    IF t.err THEN Thrown(f.registry, m.registry)
    ELSE Returned(code, f.registry, m.registry, NoSteps)

\* processCode of version A
ProcessRangesA(code, f, m, mixinRegistry, strip) ==
    IF f.err \/ m.err THEN ThrownIn(f, m, mixinRegistry)
    ELSE With(transformExcludingRanges(code, f.removals \o m.removals, m.registry,
                                       f.registry, strip, "A"),
              LAMBDA t : AroundResult(f, m, t, t.text))

ProcessCodeA(code, functionRegistry, mixinRegistry, strip) ==
    ProcessRangesA(code, extractFunctions(code, functionRegistry),
                   extractMixins(code, mixinRegistry, "A"), mixinRegistry, strip)

\* version B: transform (strip is always TRUE) and the second pass of
\* processBuildFolder (strip is its option)
ProcessRangesB(code, f, m, mixinRegistry, strip) ==
    IF f.err \/ m.err THEN ThrownIn(f, m, mixinRegistry)
    ELSE With(transformExcludingRanges(code, f.removals \o m.removals, m.registry,
                                       f.registry, FALSE, "B"),
              LAMBDA t :
                  AroundResult(f, m, t,
                               IF strip /\ ~t.err
                               THEN stripDefinitions(t.text, f.removals \o m.removals)
                               ELSE t.text))

TransformB(code, functionRegistry, mixinRegistry, strip) ==
    ProcessRangesB(code, extractFunctions(code, functionRegistry),
                   extractMixins(code, mixinRegistry, "B"), mixinRegistry, strip)

\* ------------------------------------------------------------------------
\* Source texts.  A scenario is a set of declarations (a library) and a text
\* that uses them, both rendered to CSS text from a structure; expect is the
\* text the specification promises for use, built from the same structure
\* without any parsing.
\* ------------------------------------------------------------------------

MaxParams == 2
MaxArgs == 2
MaxChain == 11

RECURSIVE Join(_, _)
Join(parts, sep) ==
    IF Len(parts) = 0 THEN ""
    ELSE IF Len(parts) = 1 THEN parts[1]
         ELSE parts[1] \o sep \o Join(Tail(parts), sep)

\* all sequences over S of length 0..n
RECURSIVE SeqsUpTo(_, _)
SeqsUpTo(S, n) ==
    IF n = 0 THEN {<<>>}
    ELSE LET shorter == SeqsUpTo(S, n - 1)
         IN  shorter \cup {Append(q, x) : q \in {r \in shorter : Len(r) = n - 1}, x \in S}

ParamNames == <<"--x", "--y", "--z", "--w">>
ParamDefaults == <<"1", "2px", "red", "0">>
MixinProps == <<"color", "width", "margin", "order">>
MixinDefaults == <<"red", "0", "auto", "1">>
FnArgValues == {"3", "rgb(0, 0, 0)"}
MixinArgValues == {"blue", "3px"}
Numerals == <<"1", "2", "3", "4", "5", "6", "7", "8", "9", "10", "11", "12", "13">>

ParamList(n) == Join([i \in 1 .. n |-> ParamNames[i] \o ": " \o ParamDefaults[i]], ", ")

FunctionDecl(name, paramStr, body) ==
    [type |-> "function", name |-> name, body |-> body,
     text |-> "@function " \o name \o "(" \o paramStr \o ") {" \o body \o "}"]

\* parens is "" for a mixin declared without a parameter list
MixinDecl(name, parens, body) ==
    [type |-> "mixin", name |-> name, body |-> body,
     text |-> "@mixin " \o name \o parens \o " {" \o body \o "}"]

Scenario(kind, tag, decls, use, expect, n, k) ==
    [kind |-> kind, tag |-> tag, decls |-> decls, use |-> use, expect |-> expect,
     n |-> n, k |-> k]

\* the value bound to parameter i by a call with arguments args
Bound(args, i) == IF i <= Len(args) THEN args[i] ELSE ParamDefaults[i]

\* --double(--x: 1, ...) { result: calc(var(--x) * ... * 2); } called with args
DoubleDecl(n) ==
    FunctionDecl("--double", ParamList(n),
                 " result: calc("
                 \o Join([i \in 1 .. n + 1 |->
                             IF i <= n THEN "var(" \o ParamNames[i] \o ")" ELSE "2"], " * ")
                 \o "); ")

CallScenarios ==
    {Scenario("call", "", <<DoubleDecl(n)>>,
              ".a { width: --double(" \o Join(args, ", ") \o "); }",
              ".a { width: calc("
              \o Join([i \in 1 .. n + 1 |-> IF i <= n THEN Bound(args, i) ELSE "2"], " * ")
              \o "); }",
              n, Len(args)) :
        n \in 0 .. MaxParams, args \in SeqsUpTo(FnArgValues, MaxArgs)}

\* --box(--c: red, ...) { color: env(--c); ... } applied with args, or without
BoxDecl(n) ==
    MixinDecl("--box", "(" \o Join([i \in 1 .. n |->
                                       ParamNames[i] \o ": " \o MixinDefaults[i]], ", ")
                       \o ")",
              " " \o Join([i \in 1 .. n |->
                              MixinProps[i] \o ": env(" \o ParamNames[i] \o ");"], " ")
              \o " ")

BoxBound(args, i) == IF i <= Len(args) THEN args[i] ELSE MixinDefaults[i]

\* form "bare" is @apply --box; and form "parens" is @apply --box(args);
ApplyScenario(n, args, form) ==
    Scenario("apply", form, <<BoxDecl(n)>>,
             ".a { @apply --box"
             \o (IF form = "bare" THEN "" ELSE "(" \o Join(args, ", ") \o ")") \o "; }",
             ".a {  "
             \o Join([i \in 1 .. n |-> MixinProps[i] \o ": " \o BoxBound(args, i) \o ";"], " ")
             \o "  }",
             n, Len(args))

ApplyScenarios ==
    {ApplyScenario(n, <<>>, "bare") : n \in 1 .. MaxParams}
    \cup {ApplyScenario(n, args, "parens") :
             n \in 1 .. MaxParams, args \in SeqsUpTo(MixinArgValues, MaxArgs)}

\* --wrap { @media (min-width: 1px) { @contents; } } applied with a block.
\* tag says how the mixin is declared: "noparams" is @mixin --wrap { ... },
\* "declared" is @mixin --wrap(@contents) { ... }; n is 1 when the caller's
\* block holds a nested rule
ContentsBlocks == <<" color: red; ", " .a { color: red; } ">>

ContentsScenario(tag, b) ==
    Scenario("contents", tag,
             <<MixinDecl("--wrap", IF tag = "noparams" THEN "" ELSE "(@contents)",
                         " @media (min-width: 1px) { @contents; } ")>>,
             "@apply --wrap {" \o ContentsBlocks[b] \o "}",
             " @media (min-width: 1px) { " \o Trim(ContentsBlocks[b]) \o " } ",
             b - 1, 0)

ContentsScenarios ==
    {ContentsScenario(tag, b) : tag \in {"noparams", "declared"}, b \in 1 .. 2}

\* a chain --f1 .. --fn: each but the last returns a call of the next with its
\* own parameter, the last returns calc(var(--x) + 1); k is 1 when the call
\* passes the argument 7 and 0 when it passes none (the default of --f1 is 5)
ChainName(i) == "--f" \o Numerals[i]

ChainDecl(i, n) ==
    FunctionDecl(ChainName(i), "--x: " \o (IF i = 1 THEN "5" ELSE "0"),
                 IF i < n THEN " result: " \o ChainName(i + 1) \o "(var(--x)); "
                 ELSE " result: calc(var(--x) + 1); ")

ChainScenario(n, k) ==
    Scenario("chain", "", [i \in 1 .. n |-> ChainDecl(i, n)],
             ".a { width: --f1(" \o (IF k = 1 THEN "7" ELSE "") \o "); }",
             ".a { width: calc(" \o (IF k = 1 THEN "7" ELSE "5") \o " + 1); }",
             n, k)

ChainScenarios == {ChainScenario(n, k) : n \in 1 .. MaxChain, k \in 0 .. 1}

\* self-referential and mutually recursive declarations; expect is not used
CycleScenarios ==
    { Scenario("cycle", "fn-self-stable",
               <<FunctionDecl("--r", "--x", " result: --r(var(--x)); ")>>,
               ".a { width: --r(1); }", "", 0, 0),
      Scenario("cycle", "fn-self-growing",
               <<FunctionDecl("--r", "--x", " result: --r(var(--x)) a; ")>>,
               ".a { width: --r(1); }", "", 0, 0),
      Scenario("cycle", "fn-mutual",
               <<FunctionDecl("--p", "--x", " result: --q(var(--x)) b; "),
                 FunctionDecl("--q", "--x", " result: --p(var(--x)); ")>>,
               ".a { width: --p(1); }", "", 0, 0),
      Scenario("cycle", "mixin-self-stable",
               <<MixinDecl("--m", "()", "@apply --m;")>>,
               ".a { @apply --m; }", "", 0, 0),
      Scenario("cycle", "mixin-self-growing",
               <<MixinDecl("--m", "()", " c: d; @apply --m; ")>>,
               ".a { @apply --m; }", "", 0, 0),
      Scenario("cycle", "mixin-mutual",
               <<MixinDecl("--m", "()", " @apply --n; "),
                 MixinDecl("--n", "()", " e: f; @apply --m; ")>>,
               ".a { @apply --m; }", "", 0, 0) }

\* apply sites of a mixin that is declared nowhere, followed by a known one
UnknownSites == <<"@apply --nope;", "@apply --nope(1, 2);", "@apply --nope { color: red; }">>

\* a site ends with its ; or, when it has a block, with the whitespace and the
\* optional ; that follow the block: the pattern takes them with the site
SiteEnd(u) == IF u = 3 THEN " " ELSE ""

UnknownScenario(u, later) ==
    Scenario("unknown", "", <<BoxDecl(1)>>,
             ".a { top: 0; " \o UnknownSites[u] \o SiteEnd(u) \o (IF u = 3 THEN "" ELSE " ")
             \o "left: 0; " \o (IF later = 1 THEN "@apply --box; " ELSE "") \o "}",
             ".a { top: 0; /* Unknown mixin: --nope */" \o (IF u = 3 THEN "" ELSE " ")
             \o "left: 0; " \o (IF later = 1 THEN " color: red;  " ELSE "") \o "}",
             u, later)

UnknownScenarios == {UnknownScenario(u, l) : u \in 1 .. 3, l \in 0 .. 1}

\* texts with no declaration, no @apply and no call of a registered function
PlainTexts ==
    { ".a { color: red; width: calc(1px + 2px); }",
      ".a { width: --other(3); }",
      ".a { --c: 1; width: var(--c, 2); }",
      "--u(1) --v( } ) [",
      "x --other(",
      "" }

PlainScenarios ==
    {Scenario("plain", "", <<DoubleDecl(1), BoxDecl(1)>>, t, t, 0, 0) : t \in PlainTexts}

\* declarations whose bodies hold calls of registered functions and apply sites
\* of registered mixins
CardScenarios ==
    { Scenario("card", "",
               <<DoubleDecl(1), BoxDecl(1),
                 MixinDecl("--card", "()", " width: --double(2); @apply --box; "),
                 FunctionDecl("--quad", "--x: 1", " result: --double(--double(var(--x))); ")>>,
               ".a { @apply --card; }",
               ".a {  width: calc(2 * 2);  color: red;   }", 0, 0) }

\* a mixin --pad whose body calls the function --double with its parameter,
\* applied directly (tag "direct") or through a mixin --outer that applies it
\* (tag "outer"): the use text holds no call
MixCallScenario(tag, arg) ==
    Scenario("mixcall", tag,
             <<DoubleDecl(1),
               MixinDecl("--pad", "(--n: 1)", " padding: --double(env(--n)); "),
               MixinDecl("--outer", "(--o)", " @apply --pad(env(--o)); ")>>,
             ".a { @apply " \o (IF tag = "direct" THEN "--pad" ELSE "--outer")
             \o "(" \o arg \o "); }",
             ".a {  " \o (IF tag = "direct" THEN "" ELSE " ")
             \o "padding: calc(" \o arg \o " * 2); "
             \o (IF tag = "direct" THEN "" ELSE " ") \o " }",
             0, 0)

MixCallScenarios ==
    {MixCallScenario(tag, arg) : tag \in {"direct", "outer"}, arg \in MixinArgValues}

\* a function --broken declared without result: next to --double; the use text
\* calls --broken (tag "called") or only --double (tag "uncalled")
NoResultScenario(tag, arg) ==
    Scenario("noresult", tag,
             <<FunctionDecl("--broken", "--x: 1", " color: red; "), DoubleDecl(1)>>,
             ".a { width: "
             \o (IF tag = "called" THEN "--broken" ELSE "--double")
             \o "(" \o arg \o "); }",
             ".a { width: calc(" \o arg \o " * 2); }",
             0, 0)

NoResultScenarios ==
    {NoResultScenario(tag, arg) : tag \in {"called", "uncalled"}, arg \in FnArgValues}

\* the parameters --x and --y of a declaration: tag says what --x carries, a
\* type annotation (<length> or type(<number> | <percentage>)) and the default
\* 1px, or the default calc(1px + 2px); --y has no default when k = 0
ParamTags == {"plain", "angle", "type", "calc"}

ParamAnnotation(tag) ==
    IF tag = "angle" THEN " <length>"
    ELSE IF tag = "type" THEN " type(<number> | <percentage>)" ELSE ""

ParamDefault(tag) == IF tag = "calc" THEN "calc(1px + 2px)" ELSE "1px"

DeclaredParams(tag, k) ==
    <<[name |-> "--x", defaultValue |-> Some(ParamDefault(tag))],
      [name |-> "--y", defaultValue |-> IF k = 1 THEN Some("2px") ELSE None]>>

ParamText(tag, k) ==
    "--x" \o ParamAnnotation(tag) \o ": " \o ParamDefault(tag) \o ", --y"
    \o (IF k = 1 THEN " <length> : 2px" ELSE "")

\* a function and a mixin declared with these parameters; the use text calls
\* the function with one argument and applies the mixin with none
ParamScenario(tag, k) ==
    Scenario("params", tag,
             <<FunctionDecl("--sum", ParamText(tag, k),
                            " result: calc(var(--x) + var(--y)); "),
               MixinDecl("--gap", "(" \o ParamText(tag, k) \o ")",
                         " margin: env(--x) env(--y); ")>>,
             ".a { width: --sum(5px); @apply --gap; }",
             ".a { width: calc(5px + " \o (IF k = 1 THEN "2px" ELSE "var(--y)") \o "); "
             \o " margin: " \o ParamDefault(tag) \o " "
             \o (IF k = 1 THEN "2px" ELSE "env(--y)") \o ";  }",
             0, k)

ParamScenarios == {ParamScenario(tag, k) : tag \in ParamTags, k \in 0 .. 1}

\* --pick(--p, --q: 4px) refers to the default-less --p with and without a
\* fallback and to --q with one; the call passes arg for --p, or nothing (k = 0)
FallbackScenario(k, arg) ==
    Scenario("fallback", "",
             <<FunctionDecl("--pick", "--p, --q: 4px",
                            " result: var(--p,  9px ) var(--p) var(--q, 8px); ")>>,
             ".a { margin: --pick(" \o (IF k = 1 THEN arg ELSE "") \o "); }",
             ".a { margin: " \o (IF k = 1 THEN arg ELSE "9px") \o " "
             \o (IF k = 1 THEN arg ELSE "var(--p)") \o " 4px; }",
             0, k)

FallbackScenarios == {FallbackScenario(k, arg) : k \in 0 .. 1, arg \in FnArgValues}

\* --slot(--c: red, @contents) holds a bare placeholder and one with a default
\* block.  It is applied with a block (tag "block": n = 0 a flat block, n = 1
\* a block that holds a nested rule) or without one (tag "none"), with the
\* argument green (k = 1) or without arguments.  The placeholder patterns take
\* the whitespace behind a default block with them.
SlotDecl ==
    MixinDecl("--slot", "(--c: red, @contents)",
              " a { color: env(--c); @contents; } b { @contents { color: blue; } } ")

SlotScenario(tag, n, k) ==
    Scenario("slot", tag, <<SlotDecl>>,
             "@apply --slot" \o (IF k = 1 THEN "(green)" ELSE "")
             \o (IF tag = "block" THEN " {" \o ContentsBlocks[n + 1] \o "}" ELSE ";"),
             " a { color: " \o (IF k = 1 THEN "green" ELSE "red") \o "; "
             \o (IF tag = "block" THEN Trim(ContentsBlocks[n + 1]) ELSE "")
             \o " } b { "
             \o (IF tag = "block" THEN Trim(ContentsBlocks[n + 1]) ELSE " color: blue; ")
             \o "} ",
             n, k)

SlotScenarios ==
    {SlotScenario("block", n, k) : n \in 0 .. 1, k \in 0 .. 1}
    \cup {SlotScenario("none", 0, k) : k \in 0 .. 1}

\* --a and --b wrap their argument; the use text calls them one after the other
\* (tag "apart") or calls --a with a call of --b as its argument (tag "nested").
\* FirstPass is the text one pass of function resolution is to return.
NestedUse(tag, arg) ==
    IF tag = "apart" THEN ".a { width: --a(" \o arg \o ") --b(" \o arg \o "); }"
    ELSE ".a { width: --a(--b(" \o arg \o ")); }"

FirstPass(tag, arg) ==
    IF tag = "apart" THEN ".a { width: A(" \o arg \o ") B(" \o arg \o "); }"
    ELSE ".a { width: A(--b(" \o arg \o ")); }"

NestedScenario(tag, arg) ==
    Scenario("nested", tag,
             <<FunctionDecl("--a", "--x", " result: A(var(--x)); "),
               FunctionDecl("--b", "--y", " result: B(var(--y)); ")>>,
             NestedUse(tag, arg),
             IF tag = "apart" THEN FirstPass(tag, arg)
             ELSE ".a { width: A(B(" \o arg \o ")); }",
             0, IF arg = "3" THEN 0 ELSE 1)

NestedScenarios ==
    {NestedScenario(tag, arg) : tag \in {"apart", "nested"}, arg \in FnArgValues}

\* the arrangements of the declarations in a file.  tag:
\*   "fnfirst"     the function, then the mixin, then the text that uses them
\*   "mixinfirst"  the mixin, then the function, then the text
\*   "usefirst"    the text, then the function and the mixin
\*   "inside"      the function declared inside the body of the mixin, then
\*                 the text: the span of the mixin holds the span of the
\*                 function; the text calls the function and applies nothing
ArrangedTags == {"fnfirst", "mixinfirst", "usefirst", "inside"}

TwiceDecl == FunctionDecl("--twice", "--x", " result: calc(var(--x) * 2); ")

ArrangedDecls(tag) ==
    IF tag = "inside"
    THEN <<MixinDecl("--pad", "(--n: 1px)",
                     " " \o TwiceDecl.text \o " padding: env(--n); ")>>
    ELSE IF tag = "mixinfirst"
    THEN <<MixinDecl("--pad", "(--n: 1px)", " padding: env(--n); "), TwiceDecl>>
    ELSE <<TwiceDecl, MixinDecl("--pad", "(--n: 1px)", " padding: env(--n); ")>>

ArrangedScenario(tag, arg) ==
    Scenario("arranged", tag, ArrangedDecls(tag),
             ".a { width: --twice(" \o arg \o ");"
             \o (IF tag = "inside" THEN "" ELSE " @apply --pad(4px);") \o " }",
             ".a { width: calc(" \o arg \o " * 2);"
             \o (IF tag = "inside" THEN "" ELSE "  padding: 4px; ") \o " }",
             0, IF arg = "3" THEN 0 ELSE 1)

ArrangedScenarios ==
    {ArrangedScenario(tag, arg) : tag \in ArrangedTags, arg \in FnArgValues}

\* the file that holds the declarations and the text starts with the text
UseFirst(sc) == sc.kind = "arranged" /\ sc.tag = "usefirst"

\* --box(--c: red, --d: 0) applied with arguments that hold brackets: tag
\* "round" for parentheses, with commas inside them, and tag "square" for
\* square brackets
BracketArgValues(tag) ==
    IF tag = "round" THEN {"calc(1px + 2px)", "rgb(0, 0, 0)"} ELSE {"[a, b]", "[c]"}

BracketArgScenario(tag, args) ==
    Scenario("bracketargs", tag, <<BoxDecl(2)>>,
             ".a { @apply --box(" \o Join(args, ", ") \o "); }",
             ".a {  "
             \o Join([i \in 1 .. 2 |-> MixinProps[i] \o ": " \o BoxBound(args, i) \o ";"], " ")
             \o "  }",
             2, Len(args))

BracketArgScenarios ==
    {BracketArgScenario(tag, args) :
        tag \in {"round"}, args \in SeqsUpTo(BracketArgValues("round"), MaxArgs) \ {<<>>}}
    \cup {BracketArgScenario(tag, args) :
        tag \in {"square"}, args \in SeqsUpTo(BracketArgValues("square"), MaxArgs) \ {<<>>}}

\* --mix(--x: 1) whose result refers to its parameter and to --other, which is
\* no parameter of it: without a fallback (tag "bare") or with one (tag
\* "fallback"); the call passes arg, or nothing (k = 0)
ForeignRef(tag) == IF tag = "bare" THEN "var(--other)" ELSE "var(--other, 2px)"

ForeignScenario(tag, k, arg) ==
    Scenario("foreign", tag,
             <<FunctionDecl("--mix", "--x: 1",
                            " result: calc(var(--x) + " \o ForeignRef(tag) \o "); ")>>,
             ".a { width: --mix(" \o (IF k = 1 THEN arg ELSE "") \o "); }",
             ".a { width: calc(" \o (IF k = 1 THEN arg ELSE "1") \o " + "
             \o ForeignRef(tag) \o "); }",
             0, k)

ForeignScenarios ==
    {ForeignScenario(tag, k, arg) :
        tag \in {"bare", "fallback"}, k \in 0 .. 1, arg \in FnArgValues}

Scenarios ==
    CallScenarios \cup ApplyScenarios \cup ContentsScenarios \cup ChainScenarios
    \cup CycleScenarios \cup UnknownScenarios \cup PlainScenarios \cup CardScenarios
    \cup MixCallScenarios \cup NoResultScenarios \cup ParamScenarios
    \cup FallbackScenarios \cup SlotScenarios \cup NestedScenarios
    \cup ArrangedScenarios \cup BracketArgScenarios \cup ForeignScenarios

Versions == {"cur", "A", "B"}

\* the style files of the project: lib holds the declarations, use the text that
\* uses them, both holds the declarations followed by the use text
Files == {"lib", "use", "both"}

\* the order in which a directory walk yields them
FileOrder == <<"both", "lib", "use">>

\* lib is a library under an include directory: buildStart reads it, no module
\* imports it, so the bundler never hands it to transform
Imported == {"use", "both"}

\* ------------------------------------------------------------------------
\* The plugin as a state machine
\* ------------------------------------------------------------------------

VARIABLES
    version,            \* which version of the plugin runs
    stripOpt,           \* the strip option (version A's plugin option, version B's
                        \* processBuildFolder option)
    scen,               \* the source texts of the project
    functionRegistry,   \* functionRegistry of the plugin instance
    mixinRegistry,      \* mixinRegistry of the plugin instance
    started,            \* buildStart has resolved
    done,               \* the files the bundler has handed to transform
    out,                \* what the last operation returned
    ranges,             \* SpecRanges: the span list under construction
    text,               \* SpecRanges: the text the spans point into
    merged,             \* SpecRanges: the last call of mergeRanges
    stripped,           \* SpecRanges: the last blanking of the spans
    scanned,            \* SpecScan: the files whose declarations were extracted,
                        \* in the order of the extractions
    parse               \* SpecParse: the last call of a parsing utility

pluginVars ==
    <<version, stripOpt, scen, functionRegistry, mixinRegistry, started, done, out,
      scanned>>
rangeVars == <<ranges, text, merged, stripped, parse>>
vars == <<version, stripOpt, scen, functionRegistry, mixinRegistry, started, done, out,
          ranges, text, merged, stripped, scanned, parse>>

LibText(sc) == Join([i \in 1 .. Len(sc.decls) |-> sc.decls[i].text], "\n")

\* the content of a file of the project
FileText(sc, f) ==
    IF f = "lib" THEN LibText(sc)
    ELSE IF f = "use" THEN sc.use
    ELSE IF UseFirst(sc) THEN sc.use \o "\n" \o LibText(sc)
    ELSE LibText(sc) \o "\n" \o sc.use

NoWritten == [f \in {} |-> ""]

NoOut == [op |-> "none", file |-> "", err |-> FALSE, code |-> "", strip |-> FALSE,
          steps |-> NoSteps, written |-> NoWritten]

NoMerge == [done |-> FALSE, input |-> <<>>, result |-> <<>>, again |-> <<>>]
NoStrip == [done |-> FALSE, code |-> "", removals |-> <<>>, result |-> "",
            around |-> ""]
NoParse == [op |-> "none", start |-> 0, index |-> 0, parts |-> <<>>]

\* index.ts has no strip option: its transform always strips
Init ==
    /\ version \in Versions
    /\ stripOpt \in BOOLEAN
    /\ version = "cur" => stripOpt
    /\ scen \in Scenarios
    /\ functionRegistry = EmptyRegistry
    /\ mixinRegistry = EmptyRegistry
    /\ started = FALSE
    /\ done = {}
    /\ out = NoOut
    /\ ranges = <<>>
    /\ text = ""
    /\ merged = NoMerge
    /\ stripped = NoStrip
    /\ scanned = <<>>
    /\ parse = NoParse

\* the loop over the style files: extractFunctions and extractMixins on each
\* content, in order, until one throws
RECURSIVE ScanFiles(_, _, _, _, _)
ScanFiles(sc, k, fReg, mReg, v) ==
    IF k > Len(FileOrder) THEN Returned("", fReg, mReg, NoSteps)
    ELSE With(ScanFile(FileText(sc, FileOrder[k]), fReg, mReg, v),
              LAMBDA r : IF r.err THEN r
                         ELSE ScanFiles(sc, k + 1, r.functionRegistry,
                                        r.mixinRegistry, v))

\* buildStart: the plugin reads every style file of the project
Scanned(r) ==
    /\ functionRegistry' = r.functionRegistry
    /\ mixinRegistry' = r.mixinRegistry
    /\ out' = [op |-> "buildStart", file |-> "", err |-> r.err, code |-> "",
               strip |-> FALSE, steps |-> NoSteps, written |-> NoWritten]
    /\ started' = TRUE
    /\ UNCHANGED <<version, stripOpt, scen, done, rangeVars, scanned>>

BuildStart ==
    /\ ~started
    /\ out.op = "none"
    /\ Scanned(ScanFiles(scen, 1, functionRegistry, mixinRegistry, version))

\* the end of a transform: the registries as the call left them, the returned code
Finish(f, r, strip) ==
    /\ functionRegistry' = r.functionRegistry
    /\ mixinRegistry' = r.mixinRegistry
    /\ out' = [op |-> "transform", file |-> f, err |-> r.err, code |-> r.code,
               strip |-> strip, steps |-> r.steps, written |-> NoWritten]
    /\ done' = done \cup {f}
    /\ UNCHANGED <<version, stripOpt, scen, started, rangeVars, scanned>>

\* transform(code, id) of src/plugin/src/index.ts; the bundler calls it once
\* for a module, after buildStart has resolved
TransformCurrent(f) ==
    /\ version = "cur"
    /\ started /\ f \in Imported \ done
    /\ Finish(f, TransformCur(FileText(scen, f), functionRegistry, mixinRegistry), TRUE)

\* transform(code, id) of version A on a style file: processCode(code, strip)
ProcessCode(f) ==
    /\ version = "A"
    /\ started /\ f \in Imported \ done
    /\ Finish(f, ProcessCodeA(FileText(scen, f), functionRegistry, mixinRegistry, stripOpt),
              stripOpt)

\* transform(code, id) of version B: expand around the spans, then strip
TransformMerged(f) ==
    /\ version = "B"
    /\ started /\ f \in Imported \ done
    /\ Finish(f, TransformB(FileText(scen, f), functionRegistry, mixinRegistry, TRUE), TRUE)

\* the second pass of processBuildFolder: each file is rewritten in turn, a throw
\* leaves the files after it as they were
RECURSIVE FolderSecondPass(_, _, _, _, _, _)
FolderSecondPass(sc, k, fReg, mReg, strip, written) ==
    IF k > Len(FileOrder) THEN [err |-> FALSE, written |-> written]
    ELSE With(TransformB(FileText(sc, FileOrder[k]), fReg, mReg, strip),
              LAMBDA r :
                  IF r.err THEN [err |-> TRUE, written |-> written]
                  ELSE FolderSecondPass(sc, k + 1, r.functionRegistry,
                                        r.mixinRegistry, strip,
                                        [written EXCEPT ![FileOrder[k]] = r.code]))

\* the two passes of processBuildFolder over the files
FolderPasses(sc, strip, files) ==
    With(ScanFiles(sc, 1, EmptyRegistry, EmptyRegistry, "B"),
         LAMBDA p : IF p.err THEN [err |-> TRUE, written |-> files]
                    ELSE FolderSecondPass(sc, 1, p.functionRegistry, p.mixinRegistry,
                                          strip, files))

Written(r) ==
    /\ out' = [op |-> "buildFolder", file |-> "", err |-> r.err, code |-> "",
               strip |-> stripOpt, steps |-> NoSteps, written |-> r.written]
    /\ UNCHANGED <<version, stripOpt, scen, functionRegistry, mixinRegistry, started,
                   done, rangeVars, scanned>>

\* processBuildFolder of version B, run on the project's files instead of a
\* build: registries of its own, a first pass that collects, a second that rewrites
ProcessBuildFolder ==
    /\ version = "B"
    /\ ~started
    /\ out.op = "none"
    /\ Written(FolderPasses(scen, stripOpt, [f \in Files |-> FileText(scen, f)]))

Next ==
    \/ BuildStart
    \/ ProcessBuildFolder
    \/ \E f \in Files :
        \/ TransformCurrent(f)
        \/ ProcessCode(f)
        \/ TransformMerged(f)

Spec == Init /\ [][Next]_vars

\* ------------------------------------------------------------------------
\* Spans: stripDefinitions, mergeRanges and the strip branch of
\* transformExcludingRanges on arbitrary span lists
\* ------------------------------------------------------------------------

MaxSpans == 3
MaxPos == 3

\* texts without declarations, calls or apply sites: what matters is where the
\* newlines are
RangeTexts == {"a\nb\n", "\n\nab"}

InitRanges ==
    /\ version = "A"
    /\ stripOpt = TRUE
    /\ scen = ChainScenario(1, 0)
    /\ functionRegistry = EmptyRegistry
    /\ mixinRegistry = EmptyRegistry
    /\ started = FALSE
    /\ done = {}
    /\ out = NoOut
    /\ ranges = <<>>
    /\ text \in RangeTexts
    /\ merged = NoMerge
    /\ stripped = NoStrip
    /\ scanned = <<>>
    /\ parse = NoParse

\* a caller builds the list: any span [s, e) with s <= e, in any order
AddRange(s, e) ==
    /\ ~merged.done /\ ~stripped.done
    /\ Len(ranges) < MaxSpans
    /\ ranges' = Append(ranges, <<s, e>>)
    /\ UNCHANGED <<pluginVars, text, merged, stripped, parse>>

\* mergeRanges(ranges), and mergeRanges of what it returned
MergeRanges ==
    /\ ~merged.done /\ ~stripped.done
    /\ merged' = [done |-> TRUE, input |-> ranges, result |-> mergeRanges(ranges),
                  again |-> mergeRanges(mergeRanges(ranges))]
    /\ ranges' = CallerRanges(ranges)
    /\ UNCHANGED <<pluginVars, text, stripped, parse>>

\* stripDefinitions(text, ranges), and version A's transformExcludingRanges with
\* strip set on the same text and spans
StripRanges ==
    /\ ~merged.done /\ ~stripped.done
    /\ stripped' = [done |-> TRUE, code |-> text, removals |-> ranges,
                    result |-> stripDefinitions(text, ranges),
                    around |-> transformExcludingRanges(text, ranges, EmptyRegistry,
                                                        EmptyRegistry, TRUE, "A").text]
    /\ UNCHANGED <<pluginVars, ranges, text, merged, parse>>

NextRanges ==
    \/ \E s \in 0 .. MaxPos : \E e \in s .. MaxPos : AddRange(s, e)
    \/ MergeRanges
    \/ StripRanges

SpecRanges == InitRanges /\ [][NextRanges]_vars

\* ------------------------------------------------------------------------
\* Discovery: the scans of buildStart of index.ts, file by file.  The include
\* scans are started together and each awaits its reads, so their files are
\* extracted in any interleaving; within one path the files come in order.
\* The scan of root starts when every include scan has ended.  One file's
\* extractFunctions and extractMixins run without an await between them.
\* ------------------------------------------------------------------------

MaxScanFiles == 2

IncludePaths == {"ia", "ib", "ic"}

\* the style files under each path, in the order findStyleFiles yields them
DirFiles ==
    [ia |-> <<"a1", "a2", "a3">>, ib |-> <<"b1", "b2", "b3">>,
     ic |-> <<"c1", "c2">>, root |-> <<"r1", "r2">>]

Dir(p) ==
    IF p = "root" THEN DirFiles[p]
    ELSE SubSeq(DirFiles[p], 1, Min(MaxScanFiles, Len(DirFiles[p])))

\* the declarations of each file: the body of a declaration names its file
ScanDecls ==
    [a1 |-> <<FunctionDecl("--f", "--x: 1", " result: a1(var(--x)); "),
              FunctionDecl("--only", "--x", " result: only(var(--x)); ")>>,
     a2 |-> <<FunctionDecl("--f", "", " result: a2-first; "),
              FunctionDecl("--f", "--x: 2", " result: a2(var(--x)); "),
              MixinDecl("--m", "()", " from: a2; ")>>,
     a3 |-> <<MixinDecl("--m", "(--c)", " from: a3; ")>>,
     b1 |-> <<FunctionDecl("--f", "", " result: b1; "),
              MixinDecl("--m", "()", " from: b1; ")>>,
     b2 |-> <<FunctionDecl("--g", "", " result: b2; ")>>,
     b3 |-> <<FunctionDecl("--f", "--y", " result: b3; ")>>,
     c1 |-> <<MixinDecl("--m", "()", " from: c1; ")>>,
     c2 |-> <<FunctionDecl("--g", "--x", " result: c2; "),
              FunctionDecl("--f", "", " result: c2; ")>>,
     r1 |-> <<FunctionDecl("--g", "", " result: r1; ")>>,
     r2 |-> <<MixinDecl("--m", "()", " from: r2; ")>>]

\* the text of each file that follows its declarations
ScanUse ==
    [f \in DOMAIN ScanDecls |->
        IF f = "r1" THEN ".a { width: --only(3); }"
        ELSE IF f = "r2" THEN ".b { @apply --m; }" ELSE ""]

ScanText(f) ==
    Join([i \in 1 .. Len(ScanDecls[f]) |-> ScanDecls[f][i].text], "\n")
    \o "\n" \o ScanUse[f]

\* how many files of path p were extracted
ScanPos(p) ==
    Cardinality({k \in 1 .. Len(scanned) :
                    \E i \in 1 .. Len(Dir(p)) : scanned[k] = Dir(p)[i]})

InitScan ==
    /\ version = "cur"
    /\ stripOpt = TRUE
    /\ scen = ChainScenario(1, 0)
    /\ functionRegistry = EmptyRegistry
    /\ mixinRegistry = EmptyRegistry
    /\ started = FALSE
    /\ done = {}
    /\ out = NoOut
    /\ ranges = <<>>
    /\ text = ""
    /\ merged = NoMerge
    /\ stripped = NoStrip
    /\ scanned = <<>>
    /\ parse = NoParse

\* the extraction of file f ended with r; last says whether buildStart resolves
ScanStep(f, r, last) ==
    /\ functionRegistry' = r.functionRegistry
    /\ mixinRegistry' = r.mixinRegistry
    /\ scanned' = Append(scanned, f)
    /\ out' = [op |-> "scan", file |-> f, err |-> r.err, code |-> "", strip |-> FALSE,
               steps |-> NoSteps, written |-> NoWritten]
    /\ started' = (last /\ ~r.err)
    /\ UNCHANGED <<version, stripOpt, scen, done, rangeVars>>

\* the scan of include path p extracts its next file
ScanInclude(p) ==
    /\ ~started
    /\ ScanPos("root") = 0
    /\ ScanPos(p) < Len(Dir(p))
    /\ ScanStep(Dir(p)[ScanPos(p) + 1],
                ScanFile(ScanText(Dir(p)[ScanPos(p) + 1]), functionRegistry,
                         mixinRegistry, "cur"),
                FALSE)

\* await Promise.all(includeScans) has resolved: the loop over root extracts
\* its next file, and buildStart resolves after the last one
ScanRoot ==
    /\ ~started /\ ~out.err
    /\ \A p \in IncludePaths : ScanPos(p) = Len(Dir(p))
    /\ ScanPos("root") < Len(Dir("root"))
    /\ ScanStep(Dir("root")[ScanPos("root") + 1],
                ScanFile(ScanText(Dir("root")[ScanPos("root") + 1]), functionRegistry,
                         mixinRegistry, "cur"),
                ScanPos("root") + 1 = Len(Dir("root")))

\* transform(code, id) on a file of root: it extracts the file's declarations
\* once more
Transformed(f, r) ==
    /\ functionRegistry' = r.functionRegistry
    /\ mixinRegistry' = r.mixinRegistry
    /\ scanned' = Append(scanned, f)
    /\ out' = [op |-> "transform", file |-> f, err |-> r.err, code |-> r.code,
               strip |-> TRUE, steps |-> r.steps, written |-> NoWritten]
    /\ done' = done \cup {f}
    /\ UNCHANGED <<version, stripOpt, scen, started, rangeVars>>

TransformScanned(f) ==
    /\ started
    /\ f \notin done
    /\ \E i \in 1 .. Len(Dir("root")) : f = Dir("root")[i]
    /\ Transformed(f, TransformCur(ScanText(f), functionRegistry, mixinRegistry))

\* texts a file of root is edited to after buildStart, each with a declaration
\* that is never closed: in e1 a function, behind the function --h and before a
\* rule, the function --after and the mixin --late; in e2 a mixin, behind the
\* function --h and the mixin --ok
EditedFiles == {"e1", "e2"}

EditedText(e) ==
    FunctionDecl("--h", "--x", " result: h(var(--x)); ").text \o "\n"
    \o (IF e = "e1"
        THEN "@function --bad(--x) { result: bad; \n.c { width: --h(1); }\n"
             \o FunctionDecl("--after", "--x", " result: after; ").text \o "\n"
             \o MixinDecl("--late", "()", " from: late; ").text
        ELSE MixinDecl("--ok", "()", " from: ok; ").text \o "\n"
             \o "@mixin --badm() { from: bad; \n.c { width: --h(1); }")

\* the end of a transform of an edited text: scanned is the log of the
\* extractions of the files as buildStart read them and stays as it is
Edited(e, r) ==
    /\ functionRegistry' = r.functionRegistry
    /\ mixinRegistry' = r.mixinRegistry
    /\ out' = [op |-> "edit", file |-> e, err |-> r.err, code |-> r.code,
               strip |-> TRUE, steps |-> r.steps, written |-> NoWritten]
    /\ done' = done \cup {e}
    /\ UNCHANGED <<version, stripOpt, scen, started, rangeVars, scanned>>

\* transform(code, id) on the edited text e
TransformEdited(e) ==
    /\ started
    /\ e \notin done
    /\ Edited(e, TransformCur(EditedText(e), functionRegistry, mixinRegistry))

NextScan ==
    \/ \E p \in IncludePaths : ScanInclude(p)
    \/ ScanRoot
    \/ \E f \in DOMAIN ScanDecls : TransformScanned(f)
    \/ \E e \in EditedFiles : TransformEdited(e)

SpecScan == InitScan /\ [][NextScan]_vars

\* ------------------------------------------------------------------------
\* SpecParse: the parsing utilities on every short text over brackets of the
\* three families, commas, a letter and a space
\* ------------------------------------------------------------------------

MaxText == 4

ParseChars == {"(", ")", "{", "]", ",", "a", " "}

InitParse ==
    /\ version = "cur"
    /\ stripOpt = TRUE
    /\ scen = ChainScenario(1, 0)
    /\ functionRegistry = EmptyRegistry
    /\ mixinRegistry = EmptyRegistry
    /\ started = FALSE
    /\ done = {}
    /\ out = NoOut
    /\ ranges = <<>>
    /\ text = ""
    /\ merged = NoMerge
    /\ stripped = NoStrip
    /\ scanned = <<>>
    /\ parse = NoParse

\* the text grows by one character
TypeChar(c) ==
    /\ Len(text) < MaxText
    /\ text' = text \o c
    /\ parse' = NoParse
    /\ UNCHANGED <<pluginVars, ranges, merged, stripped>>

\* findMatchingBrace(text, start)
FindMatchingBrace(start) ==
    /\ parse' = [op |-> "findMatchingBrace", start |-> start,
                 index |-> findMatchingBrace(text, start), parts |-> <<>>]
    /\ UNCHANGED <<pluginVars, ranges, text, merged, stripped>>

\* splitByComma(text)
SplitByComma ==
    /\ parse' = [op |-> "splitByComma", start |-> 0, index |-> 0,
                 parts |-> splitByComma(text)]
    /\ UNCHANGED <<pluginVars, ranges, text, merged, stripped>>

NextParse ==
    \/ \E c \in ParseChars : TypeChar(c)
    \/ \E start \in 0 .. Len(text) : FindMatchingBrace(start)
    \/ SplitByComma

SpecParse == InitParse /\ [][NextParse]_vars

\* ------------------------------------------------------------------------
\* Properties
\* ------------------------------------------------------------------------

\* the declarations of the library as an expansion leaves them: blanked to
\* nothing (they hold no newline) or copied
LibOut(sc, strip) ==
    Join([i \in 1 .. Len(sc.decls) |-> IF strip THEN "" ELSE sc.decls[i].text], "\n")

\* the text promised for file f
Expected(sc, f, strip) ==
    IF f = "use" THEN sc.expect
    ELSE IF UseFirst(sc) THEN sc.expect \o "\n" \o LibOut(sc, strip)
    ELSE LibOut(sc, strip) \o "\n" \o sc.expect

\* the files the last operation returned a text for, and the text
Outputs ==
    IF out.op = "transform" THEN {out.file}
    ELSE IF out.op = "buildFolder" THEN Imported ELSE {}

Output(f) == IF out.op = "buildFolder" THEN out.written[f] ELSE out.code

AsExpected == ~out.err /\ \A f \in Outputs : Output(f) = Expected(scen, f, out.strip)

Contains(s, lit) == \E i \in 0 .. (Len(s) - Len(lit)) : StartsWithAt(s, i, lit)

\* C1: a call of a registered function outside the declarations is replaced by
\* the result expression, each var(p_i) bound to the i-th argument when the
\* call has one and to the declared default of p_i otherwise
C1_CallReplacedByResult ==
    (scen.kind = "call" /\ Outputs # {}) => AsExpected

C1_Witness ==
    /\ scen.kind = "call" /\ scen.n = 2 /\ scen.k = 1
    /\ version = "cur" /\ out.op = "transform" /\ out.file = "use"
    /\ out.code = scen.expect /\ out.code # scen.use

\* C2: an apply site @apply name(args); or @apply name; of a registered mixin
\* is replaced by the mixin body, each env(p_i) bound to the i-th argument
\* when the site has one and to the declared default of p_i otherwise
C2_ApplyReplacedByBody ==
    (scen.kind = "apply" /\ Outputs # {}) => AsExpected

C2_Witness ==
    /\ scen.kind = "apply" /\ scen.tag = "parens" /\ scen.n = 2 /\ scen.k = 1
    /\ version = "cur" /\ out.op = "transform" /\ out.file = "use"
    /\ out.code = scen.expect /\ out.code # scen.use

\* C3: a mixin declared without a parameter list whose body holds @contents;,
\* applied with a block, yields the body with the placeholder replaced by the
\* block's content: no @contents remains, nothing of the block is dropped or
\* left dangling
C3_ContentsWithoutParamList ==
    (scen.kind = "contents" /\ scen.tag = "noparams" /\ Outputs # {}) => AsExpected

\* C4: a call of the first function of an acyclic chain of at most 10
\* registered functions resolves fully: the output holds no call of a
\* registered function and is the last result with the argument passed through
C4_ChainResolvesWithinCeiling ==
    (scen.kind = "chain" /\ scen.n <= 10 /\ Outputs # {}) => AsExpected

C4_Witness ==
    /\ scen.kind = "chain" /\ scen.n = 10 /\ scen.k = 1
    /\ version = "cur" /\ out.op = "transform" /\ out.file = "use"
    /\ out.code = scen.expect
    /\ Len(out.steps.functionPasses) = 10

\* one resolution stage: at most 10 passes, the text returned is the last
\* pass's, no pass before the last returned its input, and a stage that ends
\* below the ceiling ended on a pass that returned its input
StageStops(input, passes, result) ==
    /\ Len(passes) \in 1 .. 10
    /\ result = passes[Len(passes)]
    /\ \A k \in 1 .. (Len(passes) - 1) :
           passes[k] # (IF k = 1 THEN input ELSE passes[k - 1])
    /\ Len(passes) < 10 =>
           passes[Len(passes)] = (IF Len(passes) = 1 THEN input
                                  ELSE passes[Len(passes) - 1])

\* C5: resolveFunctionCalls and resolveMixinApplications end after at most 10
\* passes, stop at the first pass whose output is its input, and raise no
\* error on self-referential or mutually recursive declarations: the call or
\* apply site is left in the output
C5_ResolutionTerminates ==
    (version = "cur" /\ out.op = "transform") =>
        /\ ~out.err =>
               /\ StageStops(out.steps.mixinIn, out.steps.mixinPasses,
                             out.steps.functionIn)
               /\ StageStops(out.steps.functionIn, out.steps.functionPasses, out.code)
        /\ scen.kind = "cycle" =>
               /\ ~out.err
               /\ \E i \in 1 .. Len(scen.decls) :
                      Contains(out.code,
                               IF scen.decls[i].type = "function"
                               THEN scen.decls[i].name \o "("
                               ELSE "@apply " \o scen.decls[i].name)

C5_Witness ==
    /\ scen.kind = "cycle" /\ scen.tag = "mixin-mutual"
    /\ version = "cur" /\ out.op = "transform" /\ out.file = "use" /\ ~out.err
    /\ Len(out.steps.mixinPasses) = 10
    /\ Contains(out.code, "@apply --m")

C7_PlainTextUnchanged ==
    (scen.kind = "plain" /\ Outputs # {}) => AsExpected

C7_Witness ==
    /\ scen.kind = "plain" /\ scen.use = "x --other("
    /\ version = "cur" /\ out.op = "transform" /\ out.file = "use"
    /\ ~out.err /\ out.code = scen.use
    /\ "--double" \in DOMAIN functionRegistry

\* the registry entry of declaration d holds d's body as written
RawBody(d) ==
    IF d.type = "function"
    THEN d.name \in DOMAIN functionRegistry /\ functionRegistry[d.name].body = d.body
    ELSE d.name \in DOMAIN mixinRegistry /\ mixinRegistry[d.name].body = d.body

\* the extraction reports a span for each declaration of sc: it reports none
\* for a header whose parameter list holds a parenthesis (see C16)
SpansReported(sc) == ~(sc.kind = "params" /\ sc.tag \in {"type", "calc"})

\* the text of sc calls a function declared without result:, so that the
\* transform throws and returns no output (see C13)
CallThrows(sc) == sc.kind = "noresult" /\ sc.tag = "called"

\* C8: with stripping disabled the output holds the text of every declaration
\* span as written and in order, also when the bodies hold calls of registered
\* functions or apply sites of registered mixins, and the registries hold the
\* bodies as written
C8_DeclarationsCopiedVerbatim ==
    /\ (started /\ version # "cur" /\ SpansReported(scen)) =>
           \A i \in 1 .. Len(scen.decls) : RawBody(scen.decls[i])
    /\ (~out.strip /\ Outputs # {} /\ ~CallThrows(scen)) =>
           /\ ~out.err
           /\ "both" \in Outputs =>
                  IF UseFirst(scen)
                  THEN SliceFrom(Output("both"),
                                 Len(Output("both")) - Len(LibText(scen)) - 1)
                       = "\n" \o LibText(scen)
                  ELSE Slice(Output("both"), 0, Len(LibText(scen)) + 1)
                       = LibText(scen) \o "\n"
           /\ out.op = "buildFolder" => out.written["lib"] = LibText(scen)

C8_Witness ==
    /\ scen.kind = "card" /\ version = "A" /\ ~stripOpt
    /\ out.op = "transform" /\ out.file = "both" /\ ~out.err
    /\ out.code = Expected(scen, "both", FALSE)
    /\ functionRegistry["--quad"].body = " result: --double(--double(var(--x))); "

\* position p lies in one of the spans
InSpans(spans, p) == \E i \in 1 .. Len(spans) : spans[i][1] <= p /\ p < spans[i][2]

\* code from offset p on, without the characters of the spans that are no newline
RECURSIVE Blanked(_, _, _)
Blanked(code, spans, p) ==
    IF p >= Len(code) THEN ""
    ELSE (IF At(code, p) # "\n" /\ InSpans(spans, p) THEN "" ELSE At(code, p))
         \o Blanked(code, spans, p + 1)

\* each span starts at or after the end of the one before it
InOrderAndApart(spans) ==
    \A i \in 1 .. (Len(spans) - 1) : spans[i][2] <= spans[i + 1][1]

Covered(spans) == {p \in 0 .. MaxPos : InSpans(spans, p)}

\* C10: for a list of spans [s, e) with s <= e in any order, mergeRanges
\* returns spans sorted by start, each starting strictly after the end of the
\* one before it, covering what the input covers; merging the result again
\* returns it; the list passed in is as it was
C10_MergeRanges ==
    merged.done =>
        /\ \A i \in 1 .. (Len(merged.result) - 1) :
               merged.result[i][2] < merged.result[i + 1][1]
        /\ \A i \in 1 .. Len(merged.result) : merged.result[i][1] <= merged.result[i][2]
        /\ Covered(merged.result) = Covered(merged.input)
        /\ merged.again = merged.result
        /\ ranges = merged.input

C10_Witness ==
    /\ merged.done
    /\ merged.input = <<<<2, 3>>, <<0, 1>>, <<1, 2>>>>
    /\ merged.result = <<<<0, 3>>>>

\* declaration i of file f declares name as a type (function or mixin)
DeclaresAt(f, i, type, name) ==
    ScanDecls[f][i].type = type /\ ScanDecls[f][i].name = name

Declares(f, type, name) == \E i \in 1 .. Len(ScanDecls[f]) : DeclaresAt(f, i, type, name)

\* the extractions that declared name, as positions of scanned
Writers(type, name) == {k \in 1 .. Len(scanned) : Declares(scanned[k], type, name)}

\* the last declaration of name in file f
LastIn(f, type, name) ==
    ScanDecls[f][CHOOSE i \in 1 .. Len(ScanDecls[f]) :
                    /\ DeclaresAt(f, i, type, name)
                    /\ \A j \in (i + 1) .. Len(ScanDecls[f]) : ~DeclaresAt(f, j, type, name)]

\* the declaration the most recent extraction of name read
LastWritten(type, name) ==
    LastIn(scanned[CHOOSE k \in Writers(type, name) : \A j \in Writers(type, name) : j <= k],
           type, name)

RegistryOf(type) == IF type = "function" THEN functionRegistry ELSE mixinRegistry

\* C11: the registries only grow and the last write wins: after any
\* interleaving of the include scans, the scan of root and the transforms,
\* every name an extraction declared is a key of its registry and maps to the
\* declaration the most recent such extraction read (nothing else is a key);
\* a call in a file of root of a function declared only in an include file is
\* resolved by transform
C11_RegistriesGrowLastWriteWins ==
    /\ \A type \in {"function", "mixin"} : \A name \in {"--f", "--g", "--m", "--only"} :
           IF Writers(type, name) = {} THEN name \notin DOMAIN RegistryOf(type)
           ELSE /\ name \in DOMAIN RegistryOf(type)
                /\ RegistryOf(type)[name].body = LastWritten(type, name).body
    /\ (out.op = "transform" /\ out.file = "r1") =>
           ~out.err /\ out.code = "\n.a { width: only(3); }"

C11_Witness ==
    /\ out.op = "transform" /\ out.file = "r1"
    /\ SubSeq(scanned, 1, 3) = <<"c1", "b1", "a1">>
    /\ functionRegistry["--f"].body = " result: c2; "
    /\ functionRegistry["--g"].body = " result: r1; "
    /\ mixinRegistry["--m"].body = " from: r2; "

\* C12: outside the declarations the mixin applications are resolved to the
\* end before the function calls are: a call of a registered function that
\* only an applied mixin's body holds is resolved in the output, and the text
\* handed to function resolution holds the call and no apply site
C12_MixinsBeforeFunctions ==
    (scen.kind = "mixcall" /\ Outputs # {}) =>
        /\ AsExpected
        /\ version = "cur" =>
               /\ Contains(out.steps.functionIn, "--double(")
               /\ ~Contains(out.steps.functionIn, "@apply")
               /\ ~Contains(out.steps.mixinIn, "--double(")

C12_Witness ==
    /\ scen.kind = "mixcall" /\ scen.tag = "outer"
    /\ version = "cur" /\ out.op = "transform" /\ out.file = "use"
    /\ Len(out.steps.mixinPasses) = 3
    /\ out.code = ".a {   padding: calc(3px * 2);   }"

\* C13: a function declared without result: is registered by the extraction,
\* which raises nothing; the error is raised when a call of it is resolved and
\* leaves transform without an output; a text that does not call it is
\* transformed without error
C13_MissingResultThrowsAtResolution ==
    scen.kind = "noresult" =>
        /\ out.op = "buildStart" =>
               /\ ~out.err
               /\ "--broken" \in DOMAIN functionRegistry
               /\ functionRegistry["--broken"].body = " color: red; "
               /\ Len(functionRegistry["--broken"].params) = 1
        /\ out.op \in {"transform", "buildFolder"} =>
               /\ out.err <=> scen.tag = "called"
               /\ out.err => out.code = ""
               /\ scen.tag = "uncalled" => AsExpected

C13_Witness ==
    /\ scen.kind = "noresult" /\ scen.tag = "called"
    /\ version = "cur" /\ out.op = "transform" /\ out.file = "use"
    /\ out.err /\ out.code = ""
    /\ "--broken" \in DOMAIN functionRegistry

\* the depth findMatchingBrace(code, start) has after the character at offset i
BraceDepth(code, start, i) ==
    1 + Cardinality({j \in start .. i : At(code, j) \in OPEN_BRACKETS})
      - Cardinality({j \in start .. i : At(code, j) \in CLOSE_BRACKETS})

\* C14: findMatchingBrace(code, start) returns the least i >= start at which
\* the depth, 1 before start, one more after an opening bracket and one less
\* after a closing bracket of any family, is 0; it raises the unmatched-brace
\* error when there is no such i
C14_FindMatchingBrace ==
    parse.op = "findMatchingBrace" =>
        IF parse.index = -1
        THEN \A i \in parse.start .. (Len(text) - 1) :
                 BraceDepth(text, parse.start, i) # 0
        ELSE /\ parse.index \in parse.start .. (Len(text) - 1)
             /\ BraceDepth(text, parse.start, parse.index) = 0
             /\ \A i \in parse.start .. (parse.index - 1) :
                    BraceDepth(text, parse.start, i) # 0

C14_Witness ==
    /\ text = "a{])" /\ parse.op = "findMatchingBrace"
    /\ parse.start = 1 /\ parse.index = 3

\* the depth splitByComma(str) has after the character at offset i
CommaDepth(str, i) ==
    Cardinality({j \in 0 .. i : At(str, j) \in OPEN_BRACKETS})
    - Cardinality({j \in 0 .. i : At(str, j) \in CLOSE_BRACKETS})

\* the offsets of the commas at depth zero
ZeroCommas(str) ==
    {i \in 0 .. (Len(str) - 1) : At(str, i) = "," /\ CommaDepth(str, i) = 0}

\* the k-th offset of S, in increasing order
KthOf(S, k) == CHOOSE x \in S : Cardinality({y \in S : y < x}) = k - 1

\* the k-th substring between the commas at depth zero, trimmed
PieceOf(str, k) ==
    Trim(Slice(str,
               IF k = 1 THEN 0 ELSE KthOf(ZeroCommas(str), k - 1) + 1,
               IF k = Cardinality(ZeroCommas(str)) + 1 THEN Len(str)
               ELSE KthOf(ZeroCommas(str), k)))

PartsOf(str, n) ==
    [k \in 1 .. (IF PieceOf(str, n + 1) = "" THEN n ELSE n + 1) |-> PieceOf(str, k)]

\* C15: splitByComma(str) returns, in order, the trimmed substrings between
\* the commas at depth zero: a comma inside a bracketed group does not split,
\* a last part that is empty after trimming is dropped, and an empty or
\* all-whitespace str gives the empty sequence
C15_SplitByComma ==
    parse.op = "splitByComma" =>
        /\ parse.parts = PartsOf(text, Cardinality(ZeroCommas(text)))
        /\ Trim(text) = "" => parse.parts = <<>>

C15_Witness ==
    /\ text = "(,)," /\ parse.op = "splitByComma"
    /\ parse.parts = <<"(,)">>

\* the parameters the registries hold for the function and the mixin of a
\* "params" scenario are the declared ones
ParamsRegistered ==
    /\ "--sum" \in DOMAIN functionRegistry
    /\ functionRegistry["--sum"].params = DeclaredParams(scen.tag, scen.k)
    /\ "--gap" \in DOMAIN mixinRegistry
    /\ mixinRegistry["--gap"].params = DeclaredParams(scen.tag, scen.k)

\* C16: extraction registers the parameters of every @function and @mixin
\* declaration in order, the name being the leading --identifier and the
\* default the trimmed text after the first colon, also for a parameter with a
\* parenthesised type annotation or a parenthesised default; the span of the
\* declaration is reported, so that its text is left out of the substitution
C16_ParametersRegistered ==
    scen.kind = "params" =>
        /\ out.op = "buildStart" => ~out.err /\ ParamsRegistered
        /\ Outputs # {} => AsExpected

\* the same for the parameters that hold no parenthesis
C16_WithoutParentheses ==
    (scen.kind = "params" /\ scen.tag \in {"plain", "angle"}) =>
        /\ out.op = "buildStart" => ~out.err /\ ParamsRegistered
        /\ Outputs # {} => AsExpected

\* C17: a reference var(p, fallback) of a result expression takes the
\* positional argument, else the declared default of p, else the trimmed
\* fallback, else stays as it is: without an argument for the default-less p,
\* var(p, fallback) becomes fallback and var(p) is left unchanged
C17_FallbackPrecedence ==
    (scen.kind = "fallback" /\ Outputs # {}) => AsExpected

\* the same in the versions whose substituteVars reads the fallback group
C17_WhereFallbackIsRead ==
    (scen.kind = "fallback" /\ version # "A" /\ Outputs # {}) => AsExpected

\* C18: when the mixin declares a contents parameter and the apply site has a
\* block, every placeholder of the body, bare or with a default block, is
\* replaced by the trimmed interior of the caller's block, the interior being
\* all the text up to the matching closing brace, nested rules included
C18_CallerBlockReplacesPlaceholders ==
    (scen.kind = "slot" /\ scen.tag = "block" /\ Outputs # {}) => AsExpected

\* the same for the blocks that hold no nested rule
C18_FlatBlock ==
    (scen.kind = "slot" /\ scen.tag = "block" /\ scen.n = 0 /\ Outputs # {}) => AsExpected

\* C19: when the mixin declares a contents parameter and the apply site has no
\* block, every placeholder with a default block is replaced by the interior
\* of the default and every bare placeholder is deleted: no @contents is left
\* in the expansion
C19_DefaultsWithoutCallerBlock ==
    (scen.kind = "slot" /\ scen.tag = "none" /\ Outputs # {}) =>
        /\ AsExpected
        /\ \A f \in Outputs : f = "use" => ~Contains(Output(f), "@contents")

C19_Witness ==
    /\ scen.kind = "slot" /\ scen.tag = "none" /\ scen.k = 1
    /\ version = "cur" /\ out.op = "transform" /\ out.file = "use"
    /\ out.code = " a { color: green;  } b {  color: blue; } "

\* the text the first pass of function resolution returned is the promised one
FirstPassAsPromised ==
    \E arg \in FnArgValues :
        /\ scen.use = NestedUse(scen.tag, arg)
        /\ out.steps.functionPasses[1] = FirstPass(scen.tag, arg)

\* C20: one pass of function resolution replaces exactly the span of each call
\* of a registered function and emits every other character once, in order,
\* also when the argument list of a registered call holds a call of a
\* registered function, as in --a(--b(1)): the pass returns the result of the
\* outer function with the text of the inner call as its argument, and
\* neither the inner result nor a stray ) behind it
C20_CallSpanReplacedOnce ==
    (scen.kind = "nested" /\ Outputs # {}) =>
        /\ AsExpected
        /\ (version = "cur" /\ out.file = "use") => FirstPassAsPromised

\* the same for the calls that stand one after the other
C20_CallsApart ==
    (scen.kind = "nested" /\ scen.tag = "apart" /\ Outputs # {}) =>
        /\ AsExpected
        /\ (version = "cur" /\ out.file = "use") => FirstPassAsPromised

\* C21: with stripping enabled the output is the expanded text outside the
\* declarations, in order, each declaration span leaving only its newlines:
\* no character of an expanded segment is lost and no other character of a
\* declaration survives, whatever the arrangement of the declarations (a mixin
\* before a function, a span inside another, an expansion of another length
\* before a declaration)
C21_StrippedOutput ==
    (scen.kind = "arranged" /\ out.strip /\ Outputs # {}) => AsExpected

\* the same where the function stands before the mixin and both before the text
C21_FunctionThenMixinThenText ==
    (scen.kind = "arranged" /\ scen.tag = "fnfirst" /\ out.strip /\ Outputs # {})
        => AsExpected

\* the same in the versions that blank a span where they copy it
C21_WhereSpansAreBlankedInPlace ==
    (scen.kind = "arranged" /\ version # "B" /\ out.strip /\ Outputs # {}) => AsExpected

\* C22: an apply site of a registered mixin whose argument list holds nested
\* brackets, as in @apply --box(calc(1px + 2px), rgb(0, 0, 0));, is recognised
\* and replaced by the mixin body, the arguments split at the top-level commas
\* only and bound to the parameters by position
C22_BracketedApplyArguments ==
    (scen.kind = "bracketargs" /\ Outputs # {}) => AsExpected

\* the same for the arguments whose brackets are square
C22_SquareBrackets ==
    (scen.kind = "bracketargs" /\ scen.tag = "square" /\ Outputs # {}) => AsExpected

\* C23: function-call substitution rewrites only the var() references to a
\* declared parameter of the called function: var(--other) and
\* var(--other, fallback), --other being no parameter of it, are copied from
\* the result expression to the output unchanged
C23_ForeignReferencesKept ==
    (scen.kind = "foreign" /\ Outputs # {}) => AsExpected

\* the same for the references without a fallback
C23_WithoutFallback ==
    (scen.kind = "foreign" /\ scen.tag = "bare" /\ Outputs # {}) => AsExpected

\* the entries of the names the scanned files declare are those the scans left
ScannedEntriesKept ==
    \A type \in {"function", "mixin"} : \A name \in {"--f", "--g", "--m", "--only"} :
        IF Writers(type, name) = {} THEN name \notin DOMAIN RegistryOf(type)
        ELSE /\ name \in DOMAIN RegistryOf(type)
             /\ RegistryOf(type)[name].body = LastWritten(type, name).body

=============================================================================
